---- MODULE Spec2Model ----
(***************************************************************************)
(* Execution core: OrderProcessor (engine/order_processor.rs) and          *)
(* PositionKeeper (engine/position_keeper.rs) over the relational store.   *)
(*                                                                         *)
(* Both objects are shared (Arc) and every method takes &self and awaits   *)
(* the store or a cache lock; a call is modelled as a task that advances   *)
(* one await point per step, so calls of different tasks interleave at     *)
(* exactly the points where the code can be suspended.  One SQL statement  *)
(* is one atomic step of the store.                                        *)
(***************************************************************************)
EXTENDS Integers, Sequences, FiniteSets, Bags, TLC

\* ------------------------------------------------------------------ bounds
\* Number of calls that can be in flight at once.
NTasks == 2
\* Cap on the rows of the orders table (Uuid::new_v4 never runs out).
MaxOrders == 2

\* Cap on the rows of the trades table.
MaxTrades == 2

Tasks == 1..NTasks

\* ------------------------------------------------- Option<T> as a sequence
None == <<>>
Some(x) == <<x>>
IsSome(o) == Len(o) = 1
Unwrap(o) == o[1]

\* ------------------------------------------------------ rust_decimal::Decimal
\* A Decimal is modelled by its exact value, a reduced fraction n/d, d > 0.
\* Decimal equality and ordering compare values, not scales (1.0 == 1).
RECURSIVE Gcd(_, _)
Gcd(a, b) == IF b = 0 THEN a ELSE Gcd(b, a % b)

IAbs(i) == IF i < 0 THEN -i ELSE i

DNorm(n, d) ==
    LET g == Gcd(IAbs(n), d)
    IN  [n |-> n \div g, d |-> d \div g]

Dec(i) == [n |-> i, d |-> 1]
DAdd(a, b) == DNorm(a.n * b.d + b.n * a.d, a.d * b.d)
DNeg(a) == [n |-> -a.n, d |-> a.d]
DSub(a, b) == DAdd(a, DNeg(b))
DMul(a, b) == DNorm(a.n * b.n, a.d * b.d)
\* Decimal division; the code divides only by |new_quantity| # 0.
DDiv(a, b) ==
    IF b.n > 0 THEN DNorm(a.n * b.d, a.d * b.n)
               ELSE DNorm(-(a.n * b.d), a.d * (-b.n))
DAbs(a) == [n |-> IAbs(a.n), d |-> a.d]
DLt(a, b) == a.n * b.d < b.n * a.d
DLe(a, b) == a.n * b.d <= b.n * a.d
DGt(a, b) == DLt(b, a)
DGe(a, b) == DLe(b, a)
DZero == Dec(0)

\* ------------------------------------------- str::parse::<Decimal>()
\* A string is a sequence of one-character strings.  Accepted here: an
\* optional sign, digits, at most one '.', with a digit on each side of it.
Digits == <<"0", "1", "2", "3", "4", "5", "6", "7", "8", "9">>
IsDigit(c) == \E i \in 1..10 : Digits[i] = c
DigitVal(c) == (CHOOSE i \in 1..10 : Digits[i] = c) - 1

RECURSIVE DigitsToInt(_)
DigitsToInt(s) ==
    IF s = <<>> THEN 0
    ELSE 10 * DigitsToInt(SubSeq(s, 1, Len(s) - 1)) + DigitVal(s[Len(s)])

RECURSIVE Pow10(_)
Pow10(k) == IF k = 0 THEN 1 ELSE 10 * Pow10(k - 1)

SelectDigits(s) == SelectSeq(s, IsDigit)

ParseUnsigned(s) ==
    LET dots == {i \in 1..Len(s) : s[i] = "."}
        wellFormed ==
            /\ Len(s) > 0
            /\ \A i \in 1..Len(s) : IsDigit(s[i]) \/ s[i] = "."
            /\ Cardinality(dots) <= 1
            /\ \A i \in dots : i > 1 /\ i < Len(s)
    IN  IF ~wellFormed THEN None
        ELSE LET frac == IF dots = {} THEN 0
                         ELSE Len(s) - (CHOOSE i \in dots : TRUE)
             IN  Some(DNorm(DigitsToInt(SelectDigits(s)), Pow10(frac)))

ParseDecimal(s) ==
    IF Len(s) > 0 /\ s[1] = "-"
    THEN LET r == ParseUnsigned(Tail(s))
         IN  IF IsSome(r) THEN Some(DNeg(Unwrap(r))) ELSE None
    ELSE IF Len(s) > 0 /\ s[1] = "+" THEN ParseUnsigned(Tail(s))
    ELSE ParseUnsigned(s)

\* ------------------------------------------------------------- auth/mod.rs
ORDERS_CREATE == "orders:create"
ORDERS_CANCEL == "orders:cancel"
POSITIONS_READ == "positions:read"
ADMIN_FULL == "admin:full"
\* The two permissions the code names by string literal only.
POSITIONS_READ_ALL == "positions:read_all"
ACCOUNTS_READ_ALL == "accounts:read_all"

\* AuthContext: the fields the processors read.
Alice == [account_id |-> 1,
          permissions |-> {ORDERS_CREATE, ORDERS_CANCEL, POSITIONS_READ}]
Bob == [account_id |-> 2, permissions |-> {ADMIN_FULL}]
Mallory == [account_id |-> 3, permissions |-> {ORDERS_CANCEL}]
Peggy == [account_id |-> 4, permissions |-> {POSITIONS_READ, POSITIONS_READ_ALL}]
Principals == {Alice, Bob, Mallory, Peggy}
\* The principals that submit orders, and those that cancel them.
Submitters == {Alice, Mallory}
Cancellers == {Alice, Bob, Mallory, Peggy}
NoAuth == [account_id |-> 0, permissions |-> {}]

\* Variant of has_permission without the admin:full clause.
has_permission_Exact(auth, permission) == permission \in auth.permissions

has_permission(auth, permission) ==
    permission \in auth.permissions \/ ADMIN_FULL \in auth.permissions

\* Variant of can_access_account that lets every principal through.
can_access_account_Anyone(auth, target) == TRUE

can_access_account(auth, target) ==
    \/ auth.account_id = target
    \/ has_permission(auth, ADMIN_FULL)
    \/ has_permission(auth, "accounts:read_all")

\* ------------------------------------------------------------------ inputs
ClientOrderIds == {"abc", "def"}
Limit50000 == Dec(50000)

\* NewOrderRequest: the fields submit_order binds, and account_id, which the
\* body may carry and no code reads.
Request(c, sd, tp, p) ==
    [client_order_id |-> c, account_id |-> None, symbol |-> "BTC-USD", side |-> sd,
     order_type |-> tp, quantity |-> Dec(1), price |-> p]
\* Requests validate_order would refuse: a quantity that is zero or negative,
\* a limit order without a price.
InvalidRequests ==
    {[Request("abc", "buy", "limit", Some(Limit50000)) EXCEPT !.quantity = Dec(0)],
     [Request("def", "buy", "limit", Some(Limit50000)) EXCEPT !.quantity = Dec(-1)],
     Request("def", "buy", "limit", None)}
NewOrderRequests ==
    {Request("abc", "buy", "limit", Some(Limit50000)),
     Request("def", "sell", "limit", Some(Limit50000)),
     Request("def", "buy", "market", Some(Limit50000)),
     Request("def", "buy", "market", None)}
NoRequest == [client_order_id |-> "", account_id |-> None, symbol |-> "", side |-> "",
              order_type |-> "", quantity |-> DZero, price |-> None]

\* MarketTick.last_price as it arrives on the wire.
LastPrices ==
    {<<"4", "9", "9", "9", "9", ".", "9", "9">>,
     <<"5", "0", "0", "0", "0", ".", "0", "0">>,
     <<"5", "0", "0", "0", "0", ".", "0", "1">>,
     <<"a", "b", "c">>}
MarketTicks ==
    {[symbol |-> "BTC-USD", last_price |-> p] : p \in LastPrices}
        \cup {[symbol |-> "ETH-USD", last_price |-> <<"5", "0", "0", "0", "0", ".", "0", "0">>]}

OrderIds == 1..MaxOrders

\* ------------------------------------------------------------------- state
VARIABLES
    orders,          \* store: the orders table, row i has id i
    trades,          \* store: the trades table (a bag: it has no key)
    positions,       \* store: the positions table, keyed by <<account, symbol>>
    ordersCache,     \* OrderProcessor.orders
    positionsCache,  \* PositionKeeper.positions
    pc,              \* per task: the await point it is suspended at
    frame,           \* per task: the locals of the call in flight
    result,          \* the value a call returned in the step just taken
    breaker,         \* the CircuitBreaker main.rs constructs
    clock,           \* seconds since the process started
    history,         \* what the breaker has done so far; only the properties read it
    dispatcher       \* main.rs and NatsSubscriber::run: the message in hand, what
                     \* was published, the shutdown signal

vars == <<orders, trades, positions, ordersCache, positionsCache, pc, frame, result,
          breaker, clock, history, dispatcher>>

\* The circuit breaker and its surroundings; no order, tick or position call
\* touches them.
breakerVars == <<breaker, clock, history>>

\* The locals of a call.  live is a history field the code does not keep: the
\* ids of the matched orders whose store row was pending when the tick cloned
\* them out of the cache and that the loop has not finished yet; only the
\* properties read it.
\* RetryConfig (durations in milliseconds, the multiplier a fraction), and the
\* locals of with_retry_async: attempt and delay; slept is the actual_delay of
\* the sleep the call is in.
RetryConfig(max_attempts, initial_delay, max_delay, multiplier, jitter) ==
    [max_attempts |-> max_attempts, initial_delay |-> initial_delay,
     max_delay |-> max_delay, multiplier |-> multiplier, jitter |-> jitter]
NoRetry == [config |-> RetryConfig(0, 0, 0, Dec(1), FALSE),
            attempt |-> 0, delay |-> 0, slept |-> 0]

\* guard is the guard of the orders-cache RwLock the call holds in a local
\* ("none", "read" or "write"); retry is set in a call of with_retry_async.
IdleFrame == [auth |-> NoAuth, req |-> NoRequest, order_id |-> 0, order |-> None,
              matched |-> {}, price |-> DZero, calc |-> None, pos |-> None,
              guard |-> "none", retry |-> NoRetry, live |-> {}]

\* What a call returned to its caller: the variant (of OrderResult, of
\* Option<Order> or Err), the id of the order it carries, the error.  A step in
\* which no call returns a value leaves NoResult.
Result(kind, order, error) ==
    [kind |-> kind,
     order_id |-> IF IsSome(order) THEN Some(Unwrap(order).id) ELSE None,
     error |-> error]
NoResult == [task |-> 0, kind |-> "none", order_id |-> None, error |-> ""]
Returned(t, r) ==
    [task |-> t, kind |-> r.kind, order_id |-> r.order_id, error |-> r.error]

\* HashMap::new(), and an empty table.
EmptyMap == [x \in {} |-> x]

\* CircuitBreakerConfig as main.rs builds it (timeout in whole seconds).
NatsConfig ==
    [failure_threshold |-> 5, success_threshold |-> 3, timeout_secs |-> 30,
     half_open_max_calls |-> 3]

\* CircuitBreaker::new
CircuitBreaker_new(config) ==
    [config |-> config, state |-> "Closed", failure_count |-> 0,
     success_count |-> 0, last_failure_time |-> 0, half_open_calls |-> 0]

\* Nothing has happened to the breaker yet.  opened_at: the clock when the
\* state last became Open; admitted: results of true from allow_call since the
\* state last became HalfOpen; streak: failures recorded while Closed since
\* the last recorded success or since the state became Closed; tripped: the
\* streak has reached failure_threshold since the state became Closed.
NoHistory == [opened_at |-> 0, admitted |-> 0, streak |-> 0, tripped |-> FALSE]

BreakerAtStart(config) ==
    /\ breaker = CircuitBreaker_new(config)
    /\ clock = 0
    /\ history = NoHistory

\* The dispatcher before its loop has taken a message: nothing in hand,
\* nothing published, no shutdown signal sent, the process running.
DispatcherAtStart ==
    [current |-> None, published |-> <<>>, received |-> 0,
     signal |-> FALSE, exited |-> FALSE]

Init ==
    /\ orders = <<>>
    /\ trades = EmptyBag
    /\ positions = EmptyMap
    /\ ordersCache = EmptyMap
    /\ positionsCache = EmptyMap
    /\ pc = [t \in Tasks |-> "idle"]
    /\ frame = [t \in Tasks |-> IdleFrame]
    /\ result = NoResult
    /\ BreakerAtStart(NatsConfig)
    /\ dispatcher = DispatcherAtStart

\* ------------------------------------------------------- map helpers
\* HashMap::insert / HashMap::remove on a function with a finite domain.
MapInsert(m, k, v) == [x \in DOMAIN m \cup {k} |-> IF x = k THEN v ELSE m[x]]
MapRemove(m, k) == [x \in DOMAIN m \ {k} |-> m[x]]
MapValues(m) == {m[k] : k \in DOMAIN m}

\* A new call runs in a free task; the tasks are interchangeable, so it is the
\* first free one.
Free(t) ==
    /\ result = NoResult
    /\ pc[t] = "idle"
    /\ \A u \in Tasks : pc[u] = "idle" => t <= u

\* Task t is suspended at an await point and may be resumed.
At(t, label) == result = NoResult /\ pc[t] = label

\* The caller takes the value the call returned (the dispatcher turns it into
\* the response it publishes); nothing else happens in between.
Deliver ==
    /\ result # NoResult
    /\ UNCHANGED <<breakerVars, dispatcher>>
    /\ result' = NoResult
    /\ UNCHANGED <<orders, trades, positions, ordersCache, positionsCache, pc, frame>>

\* The orders-cache RwLock: read() is granted while no call holds the write
\* guard, write() while no call holds any guard.
CanRead == \A u \in Tasks : frame[u].guard # "write"
CanWrite == \A u \in Tasks : frame[u].guard = "none"

\* A call returns: the task is idle again and its locals are gone.
Return(t, r) ==
    /\ pc' = [pc EXCEPT ![t] = "idle"]
    /\ frame' = [frame EXCEPT ![t] = IdleFrame]
    /\ result' = Returned(t, r)

Goto(t, label, f) ==
    /\ pc' = [pc EXCEPT ![t] = label]
    /\ frame' = [frame EXCEPT ![t] = f]
    /\ result' = NoResult

\* Variant of the pre-check that never finds a row, as if submit_order went
\* straight to the INSERT.
SelectByClientOrderId_NoPreCheck(account, cid) == {}

\* ------------------------------------------------------------ submit_order
\* SELECT * FROM orders WHERE account_id = $1 AND client_order_id = $2
SelectByClientOrderId(account, cid) ==
    {i \in DOMAIN orders :
        orders[i].account_id = account /\ orders[i].client_order_id = cid}

\* The store's unique key on orders(account_id, client_order_id): an INSERT of
\* a second row with the pair fails.
OrdersUniqueViolation(account, cid) ==
    \E i \in DOMAIN orders :
        orders[i].account_id = account /\ orders[i].client_order_id = cid

\* Variant of the INSERT that binds the account the body names, when it names
\* one, in place of the principal's.
NewOrder_BodyAccount(id, account, req) ==
    [id |-> id,
     account_id |-> IF IsSome(req.account_id)
                    THEN DigitsToInt(SelectDigits(Unwrap(req.account_id)))
                    ELSE account,
     client_order_id |-> req.client_order_id,
     symbol |-> req.symbol, side |-> req.side, order_type |-> req.order_type,
     quantity |-> req.quantity, price |-> req.price,
     filled_quantity |-> DZero, avg_fill_price |-> None, status |-> "pending"]

\* The row INSERT ... VALUES ($1..$8, 0, 'pending', ...) RETURNING * yields.
NewOrder(id, account, req) ==
    [id |-> id, account_id |-> account, client_order_id |-> req.client_order_id,
     symbol |-> req.symbol, side |-> req.side, order_type |-> req.order_type,
     quantity |-> req.quantity, price |-> req.price,
     filled_quantity |-> DZero, avg_fill_price |-> None, status |-> "pending"]

\* Calls that are past the duplicate pre-check and will try to insert a row.
Inserting == {t \in Tasks : pc[t] = "submit_insert"}

\* Permission check, then the duplicate pre-check (first await).
SubmitSelect(t, auth, req) ==
    /\ Free(t)
    /\ UNCHANGED <<breakerVars, dispatcher>>
    /\ UNCHANGED <<orders, trades, positions, ordersCache, positionsCache>>
    /\ IF ~has_permission(auth, ORDERS_CREATE)
       THEN Return(t, Result("Err", None, "InsufficientPermissions: orders:create required"))
       ELSE LET existing == SelectByClientOrderId(auth.account_id, req.client_order_id)
            IN  IF existing # {}
                THEN Return(t, Result("Duplicate",
                                      Some(orders[CHOOSE i \in existing : TRUE]), ""))
                ELSE /\ Len(orders) + Cardinality(Inserting) < MaxOrders
                     /\ Goto(t, "submit_insert",
                             [IdleFrame EXCEPT !.auth = auth, !.req = req])

\* Variant of the INSERT step that drops the store's error instead of
\* propagating it with `?`, and carries on with the row it meant to write.
SubmitInsert_ErrorDropped(t) ==
    /\ At(t, "submit_insert")
    /\ UNCHANGED <<breakerVars, dispatcher>>
    /\ UNCHANGED <<trades, positions, ordersCache, positionsCache>>
    /\ LET f == frame[t]
           order == NewOrder(Len(orders) + 1, f.auth.account_id, f.req)
       IN  /\ orders' = IF OrdersUniqueViolation(f.auth.account_id, f.req.client_order_id)
                        THEN orders ELSE Append(orders, order)
           /\ Goto(t, "submit_cache", [f EXCEPT !.order = Some(order)])

\* INSERT INTO orders ... RETURNING * (second await).
SubmitInsert(t) ==
    /\ At(t, "submit_insert")
    /\ UNCHANGED <<breakerVars, dispatcher>>
    /\ UNCHANGED <<trades, positions, ordersCache, positionsCache>>
    /\ LET f == frame[t]
           order == NewOrder(Len(orders) + 1, f.auth.account_id, f.req)
       IN  IF OrdersUniqueViolation(f.auth.account_id, f.req.client_order_id)
           THEN /\ UNCHANGED orders
                /\ Return(t, Result("Err", None, "DatabaseError"))
           ELSE /\ orders' = Append(orders, order)
                /\ Goto(t, "submit_cache", [f EXCEPT !.order = Some(order)])

\* self.orders.write().await.insert(order.id, order.clone())
SubmitCache(t) ==
    /\ At(t, "submit_cache")
    /\ CanWrite
    /\ UNCHANGED <<breakerVars, dispatcher>>
    /\ UNCHANGED <<orders, trades, positions, positionsCache>>
    /\ LET order == Unwrap(frame[t].order)
       IN  /\ ordersCache' = MapInsert(ordersCache, order.id, order)
           /\ Return(t, Result("Accepted", Some(order), ""))

\* Variant of cancel_order that reports a missing row as an error instead of
\* Ok(None).
CancelSelect_MissingIsError(t, auth, order_id) ==
    /\ Free(t)
    /\ UNCHANGED <<breakerVars, dispatcher>>
    /\ UNCHANGED <<orders, trades, positions, ordersCache, positionsCache>>
    /\ IF ~has_permission(auth, ORDERS_CANCEL)
       THEN Return(t, Result("Err", None, "InsufficientPermissions: orders:cancel required"))
       ELSE IF order_id \notin DOMAIN orders
       THEN Return(t, Result("Err", None, "OrderNotFound"))
       ELSE IF ~can_access_account(auth, orders[order_id].account_id)
       THEN Return(t, Result("Err", None, "InsufficientPermissions: Cannot cancel others' orders"))
       ELSE Goto(t, "cancel_update", [IdleFrame EXCEPT !.order_id = order_id])

\* ------------------------------------------------------------ cancel_order
CancelSelect(t, auth, order_id) ==
    /\ Free(t)
    /\ UNCHANGED <<breakerVars, dispatcher>>
    /\ UNCHANGED <<orders, trades, positions, ordersCache, positionsCache>>
    /\ IF ~has_permission(auth, ORDERS_CANCEL)
       THEN Return(t, Result("Err", None, "InsufficientPermissions: orders:cancel required"))
       ELSE IF order_id \notin DOMAIN orders
       THEN Return(t, Result("None", None, ""))
       ELSE IF ~can_access_account(auth, orders[order_id].account_id)
       THEN Return(t, Result("Err", None, "InsufficientPermissions: Cannot cancel others' orders"))
       ELSE Goto(t, "cancel_update", [IdleFrame EXCEPT !.order_id = order_id])

\* UPDATE orders SET status='cancelled' WHERE id=$1 RETURNING *
CancelUpdate(t) ==
    /\ At(t, "cancel_update")
    /\ UNCHANGED <<breakerVars, dispatcher>>
    /\ UNCHANGED <<trades, positions, ordersCache, positionsCache>>
    /\ LET id == frame[t].order_id
           cancelled == [orders[id] EXCEPT !.status = "cancelled"]
       IN  /\ orders' = [orders EXCEPT ![id] = cancelled]
           /\ Goto(t, "cancel_cache", [frame[t] EXCEPT !.order = Some(cancelled)])

\* self.orders.write().await.remove(&order_id)
CancelCache(t) ==
    /\ At(t, "cancel_cache")
    /\ CanWrite
    /\ UNCHANGED <<breakerVars, dispatcher>>
    /\ UNCHANGED <<orders, trades, positions, positionsCache>>
    /\ ordersCache' = MapRemove(ordersCache, frame[t].order_id)
    /\ Return(t, Result("Some", frame[t].order, ""))

\* --------------------------------------------- position_keeper.rs: the math
\* Variant that adds the quantity whatever the side.
Signed_Unsigned(fill) == fill.quantity

Signed(fill) == IF fill.side = "buy" THEN fill.quantity ELSE DNeg(fill.quantity)

sign_multiplier(d) == IF DGt(d, DZero) THEN Dec(1) ELSE Dec(-1)

Calc(q, avg, realized) == [new_quantity |-> q, new_avg_price |-> avg, realized_pnl |-> realized]

\* Rule 1, increasing the position: the weighted average of the two costs.
Increase_SimpleAverage(pos, fill) ==
    Calc(DAdd(pos.net_quantity, Signed(fill)),
         DDiv(DAdd(pos.avg_price, fill.price), Dec(2)),
         DZero)

Increase(pos, fill) ==
    LET new_quantity == DAdd(pos.net_quantity, Signed(fill))
        total_cost == DAdd(DMul(DAbs(pos.net_quantity), pos.avg_price),
                           DMul(fill.quantity, fill.price))
    IN  Calc(new_quantity, DDiv(total_cost, DAbs(new_quantity)), DZero)

\* Rule 2, reducing the position: the average stays, the fill's quantity is
\* realized.
Reduce_NoSign(pos, fill) ==
    Calc(DAdd(pos.net_quantity, Signed(fill)), pos.avg_price,
         DMul(fill.quantity, DSub(fill.price, pos.avg_price)))

Reduce(pos, fill) ==
    Calc(DAdd(pos.net_quantity, Signed(fill)), pos.avg_price,
         DMul(DMul(fill.quantity, DSub(fill.price, pos.avg_price)),
              sign_multiplier(pos.net_quantity)))

\* Rule 3, closing the position exactly.
Close(pos, fill) ==
    Calc(DZero, DZero,
         DMul(DMul(DAbs(pos.net_quantity), DSub(fill.price, pos.avg_price)),
              sign_multiplier(pos.net_quantity)))

\* Rule 4, crossing zero: close the old position, open the rest at the fill
\* price.
CrossZero_FillQuantity(pos, fill) ==
    Calc(DAdd(pos.net_quantity, Signed(fill)), fill.price,
         DMul(DMul(fill.quantity, DSub(fill.price, pos.avg_price)),
              sign_multiplier(pos.net_quantity)))

CrossZero_KeepAverage(pos, fill) ==
    Calc(DAdd(pos.net_quantity, Signed(fill)), pos.avg_price,
         DMul(DMul(DAbs(pos.net_quantity), DSub(fill.price, pos.avg_price)),
              sign_multiplier(pos.net_quantity)))

CrossZero(pos, fill) ==
    LET close_qty == DAbs(pos.net_quantity)
    IN  Calc(DAdd(pos.net_quantity, Signed(fill)), fill.price,
             DMul(DMul(close_qty, DSub(fill.price, pos.avg_price)),
                  sign_multiplier(pos.net_quantity)))

calculate_new_position(pos, fill) ==
    LET fill_qty_signed == Signed(fill)
        new_quantity == DAdd(pos.net_quantity, fill_qty_signed)
        same_direction ==
            \/ DGt(pos.net_quantity, DZero) /\ DGt(fill_qty_signed, DZero)
            \/ DLt(pos.net_quantity, DZero) /\ DLt(fill_qty_signed, DZero)
        still_same_side ==
            \/ DGt(pos.net_quantity, DZero) /\ DGt(new_quantity, DZero)
            \/ DLt(pos.net_quantity, DZero) /\ DLt(new_quantity, DZero)
    IN  IF same_direction THEN Increase(pos, fill)
        ELSE IF new_quantity # DZero /\ still_same_side THEN Reduce(pos, fill)
        ELSE IF new_quantity = DZero THEN Close(pos, fill)
        ELSE CrossZero(pos, fill)

calculate_new_position_from_zero(fill) == Calc(Signed(fill), fill.price, DZero)

\* Variant of the filter with the two limit comparisons exchanged.
TickMatches_Exchanged(o, symbol, price) ==
    /\ o.symbol = symbol
    /\ o.status = "pending"
    /\ IF o.side = "buy" /\ IsSome(o.price) THEN DGe(price, Unwrap(o.price))
       ELSE IF o.side = "sell" /\ IsSome(o.price) THEN DLe(price, Unwrap(o.price))
       ELSE FALSE

\* ------------------------------------------------------ process_market_tick
\* The filter closure over the cached orders.
TickMatches(o, symbol, price) ==
    /\ o.symbol = symbol
    /\ o.status = "pending"
    /\ IF o.side = "buy" /\ IsSome(o.price) THEN DLe(price, Unwrap(o.price))
       ELSE IF o.side = "sell" /\ IsSome(o.price) THEN DGe(price, Unwrap(o.price))
       ELSE FALSE

\* process_market_tick returns (); a tick it drops leaves a warning in the log.
Unit == Result("Unit", None, "")

\* Trade rows the fills in flight have still to insert.
RECURSIVE PendingTrades(_)
PendingTrades(S) ==
    IF S = {} THEN 0
    ELSE LET t == CHOOSE x \in S : TRUE
         IN  Cardinality(frame[t].matched) + PendingTrades(S \ {t})

\* Variant of process_market_tick without drop(orders): the read guard
\* lives as long as the loop over the matched orders.
TickSelect_GuardKept(t, tick) ==
    /\ Free(t)
    /\ CanRead
    /\ UNCHANGED <<breakerVars, dispatcher>>
    /\ UNCHANGED <<orders, trades, positions, ordersCache, positionsCache>>
    /\ LET parsed == ParseDecimal(tick.last_price)
       IN  IF ~IsSome(parsed)
           THEN Return(t, Result("Unit", None, "Invalid price in market tick"))
           ELSE LET price == Unwrap(parsed)
                    matched == {o \in MapValues(ordersCache) :
                                    TickMatches(o, tick.symbol, price)}
                IN  IF matched = {} THEN Return(t, Unit)
                    ELSE /\ BagCardinality(trades) + PendingTrades(Tasks)
                                + Cardinality(matched) <= MaxTrades
                         /\ Goto(t, "fill_trade",
                                 [IdleFrame EXCEPT
                                    !.matched = matched, !.price = price,
                                    !.guard = "read",
                                    !.live = {o.id : o \in {m \in matched :
                                                orders[m.id].status = "pending"}}])

\* Parse last_price; take the read lock, clone the matching orders out,
\* drop(orders).
TickSelect(t, tick) ==
    /\ Free(t)
    /\ CanRead
    /\ UNCHANGED <<breakerVars, dispatcher>>
    /\ UNCHANGED <<orders, trades, positions, ordersCache, positionsCache>>
    /\ LET parsed == ParseDecimal(tick.last_price)
       IN  IF ~IsSome(parsed)
           THEN Return(t, Result("Unit", None, "Invalid price in market tick"))
           ELSE LET price == Unwrap(parsed)
                    matched == {o \in MapValues(ordersCache) :
                                    TickMatches(o, tick.symbol, price)}
                IN  IF matched = {} THEN Return(t, Unit)
                    ELSE /\ BagCardinality(trades) + PendingTrades(Tasks)
                                + Cardinality(matched) <= MaxTrades
                         /\ Goto(t, "fill_trade",
                                 [IdleFrame EXCEPT
                                    !.matched = matched, !.price = price,
                                    !.live = {o.id : o \in {m \in matched :
                                                orders[m.id].status = "pending"}}])

\* Variant that fills at the order's limit price.
FillPrice_Limit(order, price) == Unwrap(order.price)

\* ---------------------------------------------------------------- fill_order
\* The values fill_order binds to the trade row and to the order row.
FillPrice(order, price) == price

TradeRow(order, price) ==
    [order_id |-> order.id, account_id |-> order.account_id, symbol |-> order.symbol,
     side |-> order.side, quantity |-> order.quantity, price |-> FillPrice(order, price)]

\* The loop takes the next cloned order (the Vec is in HashMap order, which is
\* arbitrary) and fill_order inserts its trade row.
FillInsertTrade(t) ==
    /\ At(t, "fill_trade")
    /\ UNCHANGED <<breakerVars, dispatcher>>
    /\ UNCHANGED <<orders, positions, ordersCache, positionsCache>>
    /\ \E order \in frame[t].matched :
        /\ trades' = trades (+) SetToBag({TradeRow(order, frame[t].price)})
        /\ Goto(t, "fill_update",
                [frame[t] EXCEPT !.order = Some(order),
                                 !.matched = frame[t].matched \ {order}])

\* UPDATE orders SET status='filled', filled_quantity=quantity,
\*                   avg_fill_price=$2 WHERE id=$1
FilledRow(row, order, price) ==
    [row EXCEPT !.status = "filled",
                !.filled_quantity = row.quantity,
                !.avg_fill_price = Some(FillPrice(order, price))]

\* Variant that drops the order from the cache in the step that updates its
\* row, before the store has answered.
FillUpdateOrder_CacheFirst(t) ==
    /\ At(t, "fill_update")
    /\ UNCHANGED <<breakerVars, dispatcher>>
    /\ UNCHANGED <<trades, positions, positionsCache>>
    /\ LET order == Unwrap(frame[t].order)
       IN  /\ orders' = [orders EXCEPT ![order.id] = FilledRow(@, order, frame[t].price)]
           /\ ordersCache' = MapRemove(ordersCache, order.id)
    /\ Goto(t, "fill_cache", frame[t])

FillUpdateOrder(t) ==
    /\ At(t, "fill_update")
    /\ UNCHANGED <<breakerVars, dispatcher>>
    /\ UNCHANGED <<trades, positions, ordersCache, positionsCache>>
    /\ LET order == Unwrap(frame[t].order)
       IN  orders' = [orders EXCEPT ![order.id] = FilledRow(@, order, frame[t].price)]
    /\ Goto(t, "fill_cache", frame[t])

\* cache.remove(&order.id)
FillCacheRemove(t) ==
    /\ At(t, "fill_cache")
    /\ CanWrite
    /\ UNCHANGED <<breakerVars, dispatcher>>
    /\ UNCHANGED <<orders, trades, positions, positionsCache>>
    /\ ordersCache' = MapRemove(ordersCache, Unwrap(frame[t].order).id)
    /\ Goto(t, "apply_read", frame[t])

\* ---------------------------------------------------------------- apply_fill
\* The Fill value fill_order hands to the position keeper.
FillOf(order, price) ==
    [account_id |-> order.account_id, symbol |-> order.symbol, side |-> order.side,
     quantity |-> order.quantity, price |-> FillPrice(order, price)]

PositionKey(fill) == <<fill.account_id, fill.symbol>>

\* Read the cached position and compute the next one.
ApplyFillRead(t) ==
    /\ At(t, "apply_read")
    /\ UNCHANGED <<breakerVars, dispatcher>>
    /\ UNCHANGED <<orders, trades, positions, ordersCache, positionsCache>>
    /\ LET fill == FillOf(Unwrap(frame[t].order), frame[t].price)
           key == PositionKey(fill)
           calc == IF key \in DOMAIN positionsCache
                   THEN calculate_new_position(positionsCache[key], fill)
                   ELSE calculate_new_position_from_zero(fill)
       IN  Goto(t, "apply_upsert", [frame[t] EXCEPT !.calc = Some(calc)])

\* Variant of the upsert whose DO UPDATE sets realized_pnl = $5.
Upsert_Replace(fill, calc) ==
    LET key == <<fill.account_id, fill.symbol>>
        cost_basis == DMul(DAbs(calc.new_quantity), calc.new_avg_price)
    IN  [account_id |-> fill.account_id, symbol |-> fill.symbol,
         net_quantity |-> calc.new_quantity, avg_price |-> calc.new_avg_price,
         realized_pnl |-> calc.realized_pnl, unrealized_pnl |-> DZero,
         cost_basis |-> cost_basis]

\* INSERT INTO positions ... ON CONFLICT (account_id, symbol) DO UPDATE ...
\* RETURNING: the row after the statement.
Upsert(fill, calc) ==
    LET key == PositionKey(fill)
        cost_basis == DMul(DAbs(calc.new_quantity), calc.new_avg_price)
    IN  IF key \in DOMAIN positions
        THEN [positions[key] EXCEPT
                !.net_quantity = calc.new_quantity,
                !.avg_price = calc.new_avg_price,
                !.realized_pnl = DAdd(@, calc.realized_pnl),
                !.cost_basis = cost_basis]
        ELSE [account_id |-> fill.account_id, symbol |-> fill.symbol,
              net_quantity |-> calc.new_quantity, avg_price |-> calc.new_avg_price,
              realized_pnl |-> calc.realized_pnl, unrealized_pnl |-> DZero,
              cost_basis |-> cost_basis]

ApplyFillUpsert(t) ==
    /\ At(t, "apply_upsert")
    /\ UNCHANGED <<breakerVars, dispatcher>>
    /\ UNCHANGED <<orders, trades, ordersCache, positionsCache>>
    /\ LET fill == FillOf(Unwrap(frame[t].order), frame[t].price)
           position == Upsert(fill, Unwrap(frame[t].calc))
       IN  /\ positions' = MapInsert(positions, PositionKey(fill), position)
           /\ Goto(t, "apply_cache", [frame[t] EXCEPT !.pos = Some(position)])

\* Update the positions cache; fill_order returns and the loop goes on.
ApplyFillCache(t) ==
    /\ At(t, "apply_cache")
    /\ UNCHANGED <<breakerVars, dispatcher>>
    /\ UNCHANGED <<orders, trades, positions, ordersCache>>
    /\ LET fill == FillOf(Unwrap(frame[t].order), frame[t].price)
           key == PositionKey(fill)
       IN  positionsCache' =
               IF Unwrap(frame[t].calc).new_quantity = DZero
               THEN MapRemove(positionsCache, key)
               ELSE MapInsert(positionsCache, key, Unwrap(frame[t].pos))
    /\ IF frame[t].matched = {}
       THEN Return(t, Unit)
       ELSE Goto(t, "fill_trade",
                 [IdleFrame EXCEPT !.matched = frame[t].matched,
                                   !.price = frame[t].price,
                                   !.live = frame[t].live \cap
                                              {o.id : o \in frame[t].matched}])

\* ------------------------------------- subscriber.rs: handle_order_submit
\* The OrderResponse published for what submit_order returned.
SubmitResponse(r) ==
    IF r.kind = "Accepted"
    THEN [success |-> TRUE, order_id |-> r.order_id, error |-> None]
    ELSE IF r.kind = "Duplicate"
    THEN [success |-> TRUE, order_id |-> r.order_id, error |-> Some("Duplicate order")]
    ELSE [success |-> FALSE, order_id |-> None, error |-> Some(r.error)]

\* ------------------------------------------------------------ specification
Next ==
    \/ Deliver
    \/ \E t \in Tasks, auth \in Submitters, req \in NewOrderRequests :
            SubmitSelect(t, auth, req)
    \/ \E t \in Tasks : SubmitInsert(t)
    \/ \E t \in Tasks : SubmitCache(t)
    \/ \E t \in Tasks, auth \in Cancellers, id \in OrderIds : CancelSelect(t, auth, id)
    \/ \E t \in Tasks : CancelUpdate(t)
    \/ \E t \in Tasks : CancelCache(t)
    \/ \E t \in Tasks, tick \in MarketTicks : TickSelect(t, tick)
    \/ \E t \in Tasks : FillInsertTrade(t)
    \/ \E t \in Tasks : FillUpdateOrder(t)
    \/ \E t \in Tasks : FillCacheRemove(t)
    \/ \E t \in Tasks : ApplyFillRead(t)
    \/ \E t \in Tasks : ApplyFillUpsert(t)
    \/ \E t \in Tasks : ApplyFillCache(t)

Spec == Init /\ [][Next]_vars

\* ------------------------------------------------ the service in operation
\* A second specification: the database already holds positions when the
\* service starts, a store write of a fill may fail, positions are read through
\* get_account_positions, and submit_order receives the requests a validator
\* would refuse.

\* load_positions: the rows with net_quantity != 0 go into the positions cache.
LoadedPositions ==
    LET row(a, q, r) ==
            [account_id |-> a, symbol |-> "BTC-USD", net_quantity |-> Dec(q),
             avg_price |-> Dec(50000), realized_pnl |-> Dec(r),
             unrealized_pnl |-> DZero, cost_basis |-> Dec(50000)]
    IN  MapInsert(MapInsert(EmptyMap, <<1, "BTC-USD">>, row(1, 1, 5)),
                  <<2, "BTC-USD">>, row(2, -1, 0))

InitRuntime ==
    /\ orders = <<>>
    /\ trades = EmptyBag
    /\ positions = LoadedPositions
    /\ ordersCache = EmptyMap
    /\ positionsCache =
            [k \in {x \in DOMAIN LoadedPositions :
                        LoadedPositions[x].net_quantity # DZero} |-> LoadedPositions[k]]
    /\ pc = [t \in Tasks |-> "idle"]
    /\ frame = [t \in Tasks |-> IdleFrame]
    /\ result = NoResult
    /\ BreakerAtStart(NatsConfig)
    /\ dispatcher = DispatcherAtStart

\* The submit_order calls of this specification.
RuntimeSubmits ==
    ({Alice} \X ({Request("abc", "buy", "limit", Some(Limit50000)),
                  Request("def", "sell", "limit", Some(Limit50000))}
                    \cup InvalidRequests))
        \cup {<<Bob, Request("def", "buy", "market", None)>>,
              <<Mallory, Request("abc", "buy", "limit", Some(Limit50000))>>}

\* fill_order returned Err(e): the loop of process_market_tick logs
\* "Failed to fill order" and goes on with the orders that remain.
FillFailed(t, order, rest) ==
    /\ UNCHANGED <<orders, trades, positions, ordersCache, positionsCache>>
    /\ UNCHANGED <<breakerVars, dispatcher>>
    /\ result' = Returned(t, Result("Err", Some(order), "Failed to fill order"))
    /\ pc' = [pc EXCEPT ![t] = IF rest = {} THEN "idle" ELSE "fill_trade"]
    /\ frame' = [frame EXCEPT ![t] =
                    IF rest = {} THEN IdleFrame
                    ELSE [IdleFrame EXCEPT !.matched = rest,
                                           !.price = frame[t].price,
                                           !.live = frame[t].live \cap {o.id : o \in rest}]]

\* Variant of fill_order that marks the order filled before it inserts the
\* trade row: the failed insert leaves a filled order behind.
FillInsertTradeFail_OrderFirst(t) ==
    /\ At(t, "fill_trade")
    /\ UNCHANGED <<breakerVars, dispatcher>>
    /\ UNCHANGED <<trades, positions, ordersCache, positionsCache>>
    /\ \E order \in frame[t].matched :
        LET rest == frame[t].matched \ {order}
        IN  /\ orders' = [orders EXCEPT ![order.id] = FilledRow(@, order, frame[t].price)]
            /\ result' = Returned(t, Result("Err", Some(order), "Failed to fill order"))
            /\ pc' = [pc EXCEPT ![t] = IF rest = {} THEN "idle" ELSE "fill_trade"]
            /\ frame' = [frame EXCEPT ![t] =
                            IF rest = {} THEN IdleFrame
                            ELSE [IdleFrame EXCEPT !.matched = rest,
                                                   !.price = frame[t].price,
                                                   !.live = frame[t].live \cap
                                                              {o.id : o \in rest}]]

\* INSERT INTO trades fails.
FillInsertTradeFail(t) ==
    /\ At(t, "fill_trade")
    /\ \E order \in frame[t].matched :
            FillFailed(t, order, frame[t].matched \ {order})

\* UPDATE orders fails.
FillUpdateOrderFail(t) ==
    /\ At(t, "fill_update")
    /\ FillFailed(t, Unwrap(frame[t].order), frame[t].matched)

\* Variant of apply_fill that writes the positions cache before the upsert, so
\* that a failed upsert leaves the computed position in the cache.
ApplyFillUpsertFail_CacheFirst(t) ==
    /\ At(t, "apply_upsert")
    /\ UNCHANGED <<breakerVars, dispatcher>>
    /\ UNCHANGED <<orders, trades, positions, ordersCache>>
    /\ LET fill == FillOf(Unwrap(frame[t].order), frame[t].price)
           rest == frame[t].matched
       IN  /\ positionsCache' = MapInsert(positionsCache, PositionKey(fill),
                                          Upsert(fill, Unwrap(frame[t].calc)))
           /\ result' = Returned(t, Result("Err", frame[t].order, "Failed to fill order"))
           /\ pc' = [pc EXCEPT ![t] = IF rest = {} THEN "idle" ELSE "fill_trade"]
           /\ frame' = [frame EXCEPT ![t] =
                           IF rest = {} THEN IdleFrame
                           ELSE [IdleFrame EXCEPT !.matched = rest,
                                                  !.price = frame[t].price,
                                                  !.live = frame[t].live \cap
                                                             {o.id : o \in rest}]]

\* The position upsert fails: apply_fill returns the error with `?`.
ApplyFillUpsertFail(t) ==
    /\ At(t, "apply_upsert")
    /\ FillFailed(t, Unwrap(frame[t].order), frame[t].matched)

\* get_account_positions: the accounts asked for, and who asks.
Trent == [account_id |-> 5, permissions |-> {POSITIONS_READ_ALL}]
Readers == {Alice, Bob, Mallory, Peggy, Trent}
Targets == {None, Some(1), Some(2)}

PositionRows(account) ==
    {positions[k] : k \in {x \in DOMAIN positions : x[1] = account}}

\* Variant of get_account_positions without the test of the target account.
GetAccountPositions_AnyTarget(t, auth, account_id) ==
    /\ Free(t)
    /\ UNCHANGED <<breakerVars, dispatcher>>
    /\ UNCHANGED <<orders, trades, positions, ordersCache, positionsCache>>
    /\ IF ~has_permission(auth, POSITIONS_READ)
       THEN Return(t, Result("Err", None, "InsufficientPermissions: positions:read required"))
       ELSE LET target == IF IsSome(account_id) THEN Unwrap(account_id)
                          ELSE auth.account_id
            IN  /\ pc' = [pc EXCEPT ![t] = "idle"]
                /\ frame' = [frame EXCEPT ![t] = IdleFrame]
                /\ result' = [task |-> t, kind |-> "Positions", order_id |-> None,
                              error |-> "", rows |-> PositionRows(target)]

GetAccountPositions(t, auth, account_id) ==
    /\ Free(t)
    /\ UNCHANGED <<breakerVars, dispatcher>>
    /\ UNCHANGED <<orders, trades, positions, ordersCache, positionsCache>>
    /\ IF ~has_permission(auth, POSITIONS_READ)
       THEN Return(t, Result("Err", None, "InsufficientPermissions: positions:read required"))
       ELSE LET target == IF IsSome(account_id) THEN Unwrap(account_id)
                          ELSE auth.account_id
            IN  IF target # auth.account_id /\ ~has_permission(auth, POSITIONS_READ_ALL)
                THEN Return(t, Result("Err", None,
                                      "InsufficientPermissions: Cannot view others' positions"))
                ELSE /\ pc' = [pc EXCEPT ![t] = "idle"]
                     /\ frame' = [frame EXCEPT ![t] = IdleFrame]
                     /\ result' = [task |-> t, kind |-> "Positions", order_id |-> None,
                                   error |-> "", rows |-> PositionRows(target)]

NextRuntime ==
    \/ Deliver
    \/ \E t \in Tasks, call \in RuntimeSubmits : SubmitSelect(t, call[1], call[2])
    \/ \E t \in Tasks : SubmitInsert(t)
    \/ \E t \in Tasks : SubmitCache(t)
    \/ \E t \in Tasks, tick \in MarketTicks : TickSelect(t, tick)
    \/ \E t \in Tasks : FillInsertTrade(t)
    \/ \E t \in Tasks : FillInsertTradeFail(t)
    \/ \E t \in Tasks : FillUpdateOrder(t)
    \/ \E t \in Tasks : FillUpdateOrderFail(t)
    \/ \E t \in Tasks : FillCacheRemove(t)
    \/ \E t \in Tasks : ApplyFillRead(t)
    \/ \E t \in Tasks : ApplyFillUpsert(t)
    \/ \E t \in Tasks : ApplyFillUpsertFail(t)
    \/ \E t \in Tasks : ApplyFillCache(t)
    \/ \E t \in Tasks, auth \in Readers, account_id \in Targets :
            GetAccountPositions(t, auth, account_id)

SpecRuntime == InitRuntime /\ [][NextRuntime]_vars

\* --------------------------------------- apply_fill on a loaded position
\* Fill quantities are 5, 10, ... up to 5 * MaxLots.
MaxLots == 3

Quantities == {5 * i : i \in 1..MaxLots}
Prices == {80, 100, 120, 150}
Sides == {"buy", "sell"}

\* A row of the positions table for account 1, as an earlier apply_fill left
\* it (a flat row has avg_price 0).
PositionRow(q, p) ==
    [account_id |-> 1, symbol |-> "BTC-USD", net_quantity |-> Dec(q),
     avg_price |-> Dec(p), realized_pnl |-> DZero, unrealized_pnl |-> DZero,
     cost_basis |-> Dec(IAbs(q) * p)]

\* The positions table at startup: empty, a flat row, or a long or short row.
PriorPositions ==
    {EmptyMap, MapInsert(EmptyMap, <<1, "BTC-USD">>, PositionRow(0, 0))}
        \cup {MapInsert(EmptyMap, <<1, "BTC-USD">>, PositionRow(s * q, p)) :
                s \in {1, -1}, q \in Quantities, p \in Prices}

\* load_positions: SELECT ... FROM positions WHERE net_quantity != 0.
load_positions(tbl) ==
    [k \in {x \in DOMAIN tbl : tbl[x].net_quantity # DZero} |-> tbl[k]]

\* The limit order of account 1 that a tick at its limit price has matched.
MatchedOrder(sd, q, p) ==
    NewOrder(1, 1, [Request("abc", sd, "limit", Some(Dec(p))) EXCEPT
                        !.quantity = Dec(q)])

\* fill_order has inserted the trade row, updated the order row and dropped
\* the order from the cache; task 1 enters apply_fill with the fill.
InitKeeper ==
    \E prior \in PriorPositions, sd \in Sides, q \in Quantities, p \in Prices :
        LET order == MatchedOrder(sd, q, p)
        IN  /\ orders = <<FilledRow(order, order, Dec(p))>>
            /\ trades = SetToBag({TradeRow(order, Dec(p))})
            /\ positions = prior
            /\ ordersCache = EmptyMap
            /\ positionsCache = load_positions(prior)
            /\ pc = [t \in Tasks |-> IF t = 1 THEN "apply_read" ELSE "idle"]
            /\ frame = [t \in Tasks |->
                            IF t = 1
                            THEN [IdleFrame EXCEPT !.order = Some(order),
                                                   !.price = Dec(p),
                                                   !.live = {order.id}]
                            ELSE IdleFrame]
            /\ result = NoResult
            /\ BreakerAtStart(NatsConfig)
            /\ dispatcher = DispatcherAtStart

NextKeeper ==
    \/ Deliver
    \/ \E t \in Tasks : ApplyFillRead(t)
    \/ \E t \in Tasks : ApplyFillUpsert(t)
    \/ \E t \in Tasks : ApplyFillCache(t)

SpecKeeper == InitKeeper /\ [][NextKeeper]_vars

\* ------------------------------------------- resilience/circuit_breaker.rs
\* Thresholds and half_open_max_calls run from 1 to MaxThreshold; an
\* allow_call in HalfOpen is taken while half_open_calls is below MaxCalls;
\* the clock stops at MaxClock.
MaxThreshold == 2
MaxCalls == 3
MaxClock == 2

\* timeout.as_secs(): 0 for a timeout below one second.
TimeoutSecs == {0, 1}

Configs ==
    {[failure_threshold |-> f, success_threshold |-> s, timeout_secs |-> d,
      half_open_max_calls |-> m] :
        f \in 1..MaxThreshold, s \in 1..MaxThreshold, d \in TimeoutSecs,
        m \in 1..MaxThreshold}

\* Instant::now().elapsed().as_secs(): the whole seconds between the creation
\* of an Instant and the call of elapsed() on it in the same expression.
ElapsedSecs == 0

Bool(b) == Result(IF b THEN "true" ELSE "false", None, "")

\* The history after a write of new_state to the state lock.
Written(new_state) ==
    [opened_at |-> IF new_state = "Open" /\ breaker.state # "Open"
                   THEN clock ELSE history.opened_at,
     admitted |-> IF new_state # "HalfOpen" THEN 0
                  ELSE IF breaker.state = "HalfOpen" THEN history.admitted + 1
                  ELSE 1,
     streak |-> IF new_state = breaker.state THEN history.streak ELSE 0,
     tripped |-> IF new_state = breaker.state THEN history.tripped ELSE FALSE]

\* allow_call up to its return or to state.write().await.
AllowCall(t) ==
    /\ Free(t)
    /\ UNCHANGED <<orders, trades, positions, ordersCache, positionsCache, clock,
                 dispatcher>>
    /\ LET current_state == breaker.state
       IN  IF current_state = "Closed"
           THEN /\ UNCHANGED <<breaker, history>>
                /\ Return(t, Bool(TRUE))
           ELSE IF current_state = "Open"
           THEN LET last_failure == breaker.last_failure_time
                    now == ElapsedSecs
                IN  /\ UNCHANGED <<breaker, history>>
                    /\ IF now - last_failure >= breaker.config.timeout_secs
                       THEN Goto(t, "allow_write", IdleFrame)
                       ELSE Return(t, Bool(FALSE))
           ELSE LET calls == breaker.half_open_calls
                    admit == calls < breaker.config.half_open_max_calls
                IN  /\ calls < MaxCalls
                    /\ breaker' = [breaker EXCEPT !.half_open_calls = calls + 1]
                    /\ history' = [history EXCEPT
                                      !.admitted = IF admit THEN @ + 1 ELSE @]
                    /\ Return(t, Bool(admit))

\* allow_call with the write lock: transition to half-open.
AllowWrite(t) ==
    /\ At(t, "allow_write")
    /\ UNCHANGED <<orders, trades, positions, ordersCache, positionsCache, clock,
                 dispatcher>>
    /\ breaker' = [breaker EXCEPT !.state = "HalfOpen", !.half_open_calls = 0]
    /\ history' = Written("HalfOpen")
    /\ Return(t, Bool(TRUE))

\* record_success up to its return or to state.write().await.
RecordSuccess_NoIncrement(t) ==
    /\ Free(t)
    /\ UNCHANGED <<orders, trades, positions, ordersCache, positionsCache, clock,
                 dispatcher>>
    /\ IF breaker.state = "Closed"
       THEN /\ breaker' = [breaker EXCEPT !.failure_count = 0]
            /\ history' = [history EXCEPT !.streak = 0]
            /\ Return(t, Unit)
       ELSE IF breaker.state = "HalfOpen"
       THEN /\ UNCHANGED <<breaker, history>>
            /\ IF breaker.success_count + 1 >= breaker.config.success_threshold
               THEN Goto(t, "success_write", IdleFrame)
               ELSE Return(t, Unit)
       ELSE /\ UNCHANGED <<breaker, history>>
            /\ Return(t, Unit)

RecordSuccess(t) ==
    /\ Free(t)
    /\ UNCHANGED <<orders, trades, positions, ordersCache, positionsCache, clock,
                 dispatcher>>
    /\ LET current_state == breaker.state
       IN  IF current_state = "Closed"
           THEN /\ breaker' = [breaker EXCEPT !.failure_count = 0]
                /\ history' = [history EXCEPT !.streak = 0]
                /\ Return(t, Unit)
           ELSE IF current_state = "HalfOpen"
           THEN LET successes == breaker.success_count + 1
                IN  /\ breaker' = [breaker EXCEPT !.success_count = successes]
                    /\ UNCHANGED history
                    /\ IF successes >= breaker.config.success_threshold
                       THEN Goto(t, "success_write", IdleFrame)
                       ELSE Return(t, Unit)
           ELSE /\ UNCHANGED <<breaker, history>>
                /\ Return(t, Unit)

\* record_success with the write lock: closed after recovery.
SuccessWrite(t) ==
    /\ At(t, "success_write")
    /\ UNCHANGED <<orders, trades, positions, ordersCache, positionsCache, clock,
                 dispatcher>>
    /\ breaker' = [breaker EXCEPT !.state = "Closed", !.failure_count = 0,
                                  !.success_count = 0]
    /\ history' = Written("Closed")
    /\ Return(t, Unit)

\* record_failure up to its return or to state.write().await.
RecordFailure(t) ==
    /\ Free(t)
    /\ UNCHANGED <<orders, trades, positions, ordersCache, positionsCache, clock,
                 dispatcher>>
    /\ LET current_state == breaker.state
       IN  IF current_state = "Closed"
           THEN LET failures == breaker.failure_count + 1
                IN  /\ breaker' = [breaker EXCEPT !.failure_count = failures]
                    /\ history' =
                          [history EXCEPT
                              !.streak = @ + 1,
                              !.tripped = @ \/ history.streak + 1 >=
                                                breaker.config.failure_threshold]
                    /\ IF failures >= breaker.config.failure_threshold
                       THEN Goto(t, "failure_open", IdleFrame)
                       ELSE Return(t, Unit)
           ELSE IF current_state = "HalfOpen"
           THEN /\ UNCHANGED <<breaker, history>>
                /\ Goto(t, "failure_reopen", IdleFrame)
           ELSE /\ UNCHANGED <<breaker, history>>
                /\ Return(t, Unit)

\* record_failure with the write lock, from Closed: opened.
FailureOpen(t) ==
    /\ At(t, "failure_open")
    /\ UNCHANGED <<orders, trades, positions, ordersCache, positionsCache, clock,
                 dispatcher>>
    /\ breaker' = [breaker EXCEPT !.state = "Open",
                                  !.last_failure_time = ElapsedSecs]
    /\ history' = Written("Open")
    /\ Return(t, Unit)

\* record_failure with the write lock, from HalfOpen: re-opened.
FailureReopen(t) ==
    /\ At(t, "failure_reopen")
    /\ UNCHANGED <<orders, trades, positions, ordersCache, positionsCache, clock,
                 dispatcher>>
    /\ breaker' = [breaker EXCEPT !.state = "Open",
                                  !.last_failure_time = ElapsedSecs,
                                  !.success_count = 0]
    /\ history' = Written("Open")
    /\ Return(t, Unit)

\* A second passes.
Tick ==
    /\ result = NoResult
    /\ clock < MaxClock
    /\ clock' = clock + 1
    /\ UNCHANGED <<orders, trades, positions, ordersCache, positionsCache, pc, frame,
                 dispatcher,
                   result, breaker, history>>

\* A breaker of any configuration, shared by the tasks of the runtime.
InitBreaker ==
    /\ orders = <<>>
    /\ trades = EmptyBag
    /\ positions = EmptyMap
    /\ ordersCache = EmptyMap
    /\ positionsCache = EmptyMap
    /\ pc = [t \in Tasks |-> "idle"]
    /\ frame = [t \in Tasks |-> IdleFrame]
    /\ result = NoResult
    /\ \E config \in Configs : BreakerAtStart(config)
    /\ dispatcher = DispatcherAtStart

NextBreaker ==
    \/ Deliver
    \/ Tick
    \/ \E t \in Tasks : AllowCall(t)
    \/ \E t \in Tasks : AllowWrite(t)
    \/ \E t \in Tasks : RecordSuccess(t)
    \/ \E t \in Tasks : SuccessWrite(t)
    \/ \E t \in Tasks : RecordFailure(t)
    \/ \E t \in Tasks : FailureOpen(t)
    \/ \E t \in Tasks : FailureReopen(t)

SpecBreaker == InitBreaker /\ [][NextBreaker]_vars

\* ------------------------------- subscriber.rs and main.rs: the dispatcher
\* A third view of the service: the process as main.rs runs it.  One loop
\* takes the messages of the four subscriptions one at a time and awaits each
\* handler before it takes the next; a second task sends the shutdown signal.
MaxMessages == 3

\* The texts that stand for UUIDs here have two digits; Uuid::parse_str
\* refuses every other text.
UuidTextLen == 2
Uuid_parse_str(s) ==
    IF Len(s) = UuidTextLen /\ \A i \in 1..Len(s) : IsDigit(s[i])
    THEN Some(DigitsToInt(s))
    ELSE None

\* AuthPayload, as the gateway puts it into a message.
AuthPayload(account_id, permissions) ==
    [account_id |-> account_id, permissions |-> permissions]
AlicePayload == AuthPayload(<<"0", "1">>, Alice.permissions)
BobPayload == AuthPayload(<<"0", "2">>, Bob.permissions)
\* A payload whose account_id is not the text of a UUID.
StrayPayload == AuthPayload(<<"x">>, {ORDERS_CREATE})
NoPayload == AuthPayload(<<>>, {})

\* impl From<AuthPayload> for AuthContext: unwrap_or_default() yields the nil
\* UUID for a text that does not parse.
AuthContext_from(p) ==
    LET id == Uuid_parse_str(p.account_id)
    IN  [account_id |-> IF IsSome(id) THEN Unwrap(id) ELSE 0,
         permissions |-> p.permissions]

\* async_nats::Message: subject, reply, and the payload.  ok says whether
\* serde_json::from_slice accepts the payload as the type the handler of the
\* subject expects; auth, req, order_id and tick are what it then yields.
ORDERS_SUBMIT == "orders.submit"
ORDERS_CANCEL_SUBJECT == "orders.cancel"
POSITIONS_QUERY == "positions.query"
MARKET_TICK == "market.tick.BTC-USD"
Inbox == "_INBOX.1"
Replies == {None, Some(Inbox)}
NoTick == [symbol |-> "", last_price |-> <<>>]

Message(subject, reply, ok, auth, req, order_id, tick) ==
    [subject |-> subject, reply |-> reply, ok |-> ok, auth |-> auth, req |-> req,
     order_id |-> order_id, tick |-> tick]

\* A body that names another account than the principal's.
Foreign(req, account_id) == [req EXCEPT !.account_id = Some(account_id)]

SubmitMessages ==
    {Message(ORDERS_SUBMIT, reply, TRUE, call[1], call[2], <<>>, NoTick) :
        reply \in Replies,
        call \in {<<AlicePayload, Request("abc", "buy", "limit", Some(Limit50000))>>,
                  <<AlicePayload,
                    Foreign(Request("def", "buy", "limit", Some(Limit50000)), <<"0", "2">>)>>,
                  <<BobPayload,
                    Foreign(Request("abc", "buy", "limit", Some(Limit50000)), <<"0", "1">>)>>,
                  <<StrayPayload, Request("abc", "buy", "limit", Some(Limit50000))>>}}
CancelMessages ==
    {Message(ORDERS_CANCEL_SUBJECT, reply, TRUE, AlicePayload, NoRequest, id, NoTick) :
        reply \in Replies, id \in {<<"0", "1">>, <<"z", "z">>}}
QueryMessages ==
    {Message(POSITIONS_QUERY, reply, TRUE, AlicePayload, NoRequest, <<>>, NoTick) :
        reply \in Replies}
TickMessages ==
    {Message(MARKET_TICK, reply, TRUE, NoPayload, NoRequest, <<>>,
             [symbol |-> "BTC-USD", last_price |-> <<"4", "9", "9", "9", "9", ".", "9", "9">>]) :
        reply \in Replies}
\* Payloads serde_json refuses.
BadMessages ==
    {Message(subject, Some(Inbox), FALSE, NoPayload, NoRequest, <<>>, NoTick) :
        subject \in {ORDERS_SUBMIT, ORDERS_CANCEL_SUBJECT, POSITIONS_QUERY, MARKET_TICK}}
        \cup {Message(ORDERS_SUBMIT, None, FALSE, NoPayload, NoRequest, <<>>, NoTick)}
Messages ==
    SubmitMessages \cup CancelMessages \cup QueryMessages \cup TickMessages
        \cup BadMessages

\* The message the loop has in hand.
InHand(subject) ==
    /\ IsSome(dispatcher.current)
    /\ Unwrap(dispatcher.current).subject = subject
Current == Unwrap(dispatcher.current)

\* No call of the processors is in flight.
AllIdle == \A u \in Tasks : pc[u] = "idle"

processorVars == <<orders, trades, positions, ordersCache, positionsCache, pc, frame,
                   result>>

\* select! in run(): one of the subscriptions yields a message.
Receive(msg) ==
    /\ ~dispatcher.exited
    /\ ~IsSome(dispatcher.current)
    /\ dispatcher.received < MaxMessages
    /\ dispatcher' = [dispatcher EXCEPT !.current = Some(msg), !.received = @ + 1]
    /\ UNCHANGED processorVars
    /\ UNCHANGED breakerVars

\* handle_order_submit: the payload parsed, submit_order is called.
HandleOrderSubmit(t) ==
    /\ InHand(ORDERS_SUBMIT)
    /\ Current.ok
    /\ AllIdle
    /\ SubmitSelect(t, AuthContext_from(Current.auth), Current.req)

\* handle_order_cancel: the payload and the order id parsed, cancel_order is
\* called.
HandleOrderCancel(t) ==
    /\ InHand(ORDERS_CANCEL_SUBJECT)
    /\ Current.ok
    /\ IsSome(Uuid_parse_str(Current.order_id))
    /\ AllIdle
    /\ CancelSelect(t, AuthContext_from(Current.auth),
                    Unwrap(Uuid_parse_str(Current.order_id)))

\* handle_position_query: get_account_positions(&auth, None).
HandlePositionQuery(t) ==
    /\ InHand(POSITIONS_QUERY)
    /\ Current.ok
    /\ AllIdle
    /\ GetAccountPositions(t, AuthContext_from(Current.auth), None)

\* handle_market_tick: process_market_tick is called.
HandleMarketTick(t) ==
    /\ InHand(MARKET_TICK)
    /\ Current.ok
    /\ AllIdle
    /\ TickSelect(t, Current.tick)

\* The handler of the message in hand has its outcome: the payload was
\* refused, or the order id was, or the call it made has returned.
Answered ==
    /\ IsSome(dispatcher.current)
    /\ AllIdle
    /\ \/ ~Current.ok
       \/ /\ Current.subject = ORDERS_CANCEL_SUBJECT
          /\ ~IsSome(Uuid_parse_str(Current.order_id))
       \/ result # NoResult

\* success of the response the handler builds.
Success(msg, r) ==
    IF ~msg.ok THEN FALSE
    ELSE IF msg.subject = ORDERS_SUBMIT THEN SubmitResponse(r).success
    ELSE IF msg.subject = ORDERS_CANCEL_SUBJECT
    THEN IsSome(Uuid_parse_str(msg.order_id)) /\ r.kind = "Some"
    ELSE r.kind = "Positions"

Response(msg, r) == [subject |-> Unwrap(msg.reply), success |-> Success(msg, r)]

\* Variant of the last step of a handler that publishes without looking for
\* a reply subject.
PublishResponse_NoReplyTest ==
    /\ Answered
    /\ Current.subject # MARKET_TICK
    /\ dispatcher' =
        [dispatcher EXCEPT
            !.current = None,
            !.published = Append(@, [subject |-> IF IsSome(Current.reply)
                                                  THEN Unwrap(Current.reply) ELSE "",
                                     success |-> Success(Current, result)])]
    /\ result' = NoResult
    /\ UNCHANGED <<orders, trades, positions, ordersCache, positionsCache, pc, frame>>
    /\ UNCHANGED breakerVars

\* The last step of handle_order_submit, handle_order_cancel and
\* handle_position_query: if let Some(reply) = msg.reply { publish }.
PublishResponse ==
    /\ Answered
    /\ Current.subject # MARKET_TICK
    /\ dispatcher' =
        [dispatcher EXCEPT
            !.current = None,
            !.published = IF IsSome(Current.reply)
                          THEN Append(@, Response(Current, result))
                          ELSE @]
    /\ result' = NoResult
    /\ UNCHANGED <<orders, trades, positions, ordersCache, positionsCache, pc, frame>>
    /\ UNCHANGED breakerVars

\* handle_market_tick returns: after the parse error it logs, or after
\* process_market_tick.
MarketTickReturns ==
    /\ Answered
    /\ Current.subject = MARKET_TICK
    /\ dispatcher' = [dispatcher EXCEPT !.current = None]
    /\ result' = NoResult
    /\ UNCHANGED <<orders, trades, positions, ordersCache, positionsCache, pc, frame>>
    /\ UNCHANGED breakerVars

\* The task main.rs spawns: ctrl_c() resolves and shutdown_tx.send(()).
Signal ==
    /\ ~dispatcher.signal
    /\ ~dispatcher.exited
    /\ dispatcher' = [dispatcher EXCEPT !.signal = TRUE]
    /\ UNCHANGED processorVars
    /\ UNCHANGED breakerVars

\* Variant of the outer select! that looks at the shutdown channel only
\* between two messages.
Stop_BetweenMessages ==
    /\ dispatcher.signal
    /\ ~dispatcher.exited
    /\ ~IsSome(dispatcher.current)
    /\ dispatcher' = [dispatcher EXCEPT !.exited = TRUE]
    /\ UNCHANGED processorVars
    /\ UNCHANGED breakerVars

\* The outer select! of main.rs takes the shutdown branch: the future of
\* run() is dropped with the handler it was in, at the await it was
\* suspended at, and main goes on to its exit path.
Stop ==
    /\ dispatcher.signal
    /\ ~dispatcher.exited
    /\ dispatcher' = [dispatcher EXCEPT !.exited = TRUE, !.current = None]
    /\ pc' = [t \in Tasks |-> "idle"]
    /\ frame' = [t \in Tasks |-> IdleFrame]
    /\ result' = NoResult
    /\ UNCHANGED <<orders, trades, positions, ordersCache, positionsCache>>
    /\ UNCHANGED breakerVars

\* Between the signal and Stop the loop is not held back: the select! of
\* main.rs polls its two branches in random order, and the signal may be sent
\* while the main task is inside a poll of run().
NextDispatcher ==
    \/ \E msg \in Messages : Receive(msg)
    \/ \E t \in Tasks : HandleOrderSubmit(t)
    \/ \E t \in Tasks : SubmitInsert(t)
    \/ \E t \in Tasks : SubmitCache(t)
    \/ \E t \in Tasks : HandleOrderCancel(t)
    \/ \E t \in Tasks : CancelUpdate(t)
    \/ \E t \in Tasks : CancelCache(t)
    \/ \E t \in Tasks : HandlePositionQuery(t)
    \/ \E t \in Tasks : HandleMarketTick(t)
    \/ \E t \in Tasks : FillInsertTrade(t)
    \/ \E t \in Tasks : FillUpdateOrder(t)
    \/ \E t \in Tasks : FillCacheRemove(t)
    \/ \E t \in Tasks : ApplyFillRead(t)
    \/ \E t \in Tasks : ApplyFillUpsert(t)
    \/ \E t \in Tasks : ApplyFillCache(t)
    \/ PublishResponse
    \/ MarketTickReturns
    \/ Signal
    \/ Stop

SpecDispatcher == Init /\ [][NextDispatcher]_vars

\* The shutdown branch is taken once the signal is there: the send wakes the
\* main task, and its next poll of the select! finds the value in the channel.
SpecShutdown == Init /\ [][NextDispatcher]_vars /\ WF_vars(Stop)

\* ------------------------------------------- bulkhead.rs: with_retry_async
\* A call of with_retry_async on its own: the initial states draw its
\* RetryConfig, the wrapped operation fails or succeeds as it likes.
MaxAttempts == 4
MaxDelays == 3

\* RetryConfig::default() is (3, 100 ms, 10 s, 2.0, true); the configurations
\* drawn here have a max_delay the doubling reaches, and among them those
\* with no attempt allowed and with an initial delay above the maximum.
RetryConfigs ==
    {RetryConfig(max_attempts, initial_delay, 100 * MaxDelays, multiplier, jitter) :
        max_attempts \in 0..MaxAttempts,
        initial_delay \in {100, 100 * (MaxDelays + 1)},
        multiplier \in {Dec(2), [n |-> 3, d |-> 2]},
        jitter \in BOOLEAN}

\* rand_jitter(): (nanos % 1000) / 1000, in thousandths.
JitterSamples == {0, 500, 999}

\* The E the wrapped operation returns at its n-th invocation.
ErrorTexts == <<"error 1", "error 2", "error 3", "error 4", "error 5">>
ErrorOf(n) == ErrorTexts[n]

\* (delay.as_millis() as f64 * x) as u64 for a fraction x: the cast truncates.
ScaleMillis(delay, x) == (delay * x.n) \div x.d

\* actual_delay
ActualDelay(config, delay, sample) ==
    IF config.jitter
    THEN delay + ScaleMillis(delay, [n |-> sample * 3, d |-> 10000])
    ELSE delay

\* attempt += 1; match f().await: Ok returns, Err returns when attempt >=
\* max_attempts and otherwise goes to sleep(actual_delay).
RetryAttempt(t, ok, sample) ==
    /\ At(t, "retry_call")
    /\ UNCHANGED <<breakerVars, dispatcher>>
    /\ UNCHANGED <<orders, trades, positions, ordersCache, positionsCache>>
    /\ LET retry == frame[t].retry
           attempt == retry.attempt + 1
       IN  IF ok THEN Return(t, Result("Ok", None, ""))
           ELSE IF attempt >= retry.config.max_attempts
           THEN Return(t, Result("Err", None, ErrorOf(attempt)))
           ELSE Goto(t, "retry_sleep",
                     [frame[t] EXCEPT
                        !.retry = [retry EXCEPT
                            !.attempt = attempt,
                            !.slept = ActualDelay(retry.config, retry.delay, sample)]])

\* Variant of the backoff without the test against max_delay.
RetrySleep_NoCap(t) ==
    /\ At(t, "retry_sleep")
    /\ UNCHANGED <<breakerVars, dispatcher>>
    /\ UNCHANGED <<orders, trades, positions, ordersCache, positionsCache>>
    /\ LET retry == frame[t].retry
           delay == ScaleMillis(retry.delay, retry.config.multiplier)
       IN  Goto(t, "retry_call",
                [frame[t] EXCEPT !.retry = [retry EXCEPT !.delay = delay, !.slept = 0]])

\* sleep(actual_delay) is over: delay = delay * multiplier, capped at
\* max_delay; the loop goes round.
RetrySleep(t) ==
    /\ At(t, "retry_sleep")
    /\ UNCHANGED <<breakerVars, dispatcher>>
    /\ UNCHANGED <<orders, trades, positions, ordersCache, positionsCache>>
    /\ LET retry == frame[t].retry
           delay == ScaleMillis(retry.delay, retry.config.multiplier)
           capped == IF delay > retry.config.max_delay
                     THEN retry.config.max_delay ELSE delay
       IN  Goto(t, "retry_call",
                [frame[t] EXCEPT !.retry = [retry EXCEPT !.delay = capped, !.slept = 0]])

\* let mut attempt = 0; let mut delay = config.initial_delay;
InitRetry ==
    /\ orders = <<>>
    /\ trades = EmptyBag
    /\ positions = EmptyMap
    /\ ordersCache = EmptyMap
    /\ positionsCache = EmptyMap
    /\ \E config \in RetryConfigs :
        /\ pc = [t \in Tasks |-> IF t = 1 THEN "retry_call" ELSE "idle"]
        /\ frame = [t \in Tasks |->
                        IF t = 1
                        THEN [IdleFrame EXCEPT
                                !.retry = [NoRetry EXCEPT
                                    !.config = config,
                                    !.delay = config.initial_delay]]
                        ELSE IdleFrame]
    /\ result = NoResult
    /\ BreakerAtStart(NatsConfig)
    /\ dispatcher = DispatcherAtStart

NextRetry ==
    \/ \E t \in Tasks, ok \in BOOLEAN, sample \in JitterSamples : RetryAttempt(t, ok, sample)
    \/ \E t \in Tasks : RetrySleep(t)
    \/ Deliver

\* The wrapped operation's future resolves and the sleep ends: a call that
\* can take its next step takes it.
SpecRetry == InitRetry /\ [][NextRetry]_vars /\ WF_vars(NextRetry)

\* ------------------------------------------------------------------ claims
\* Rows of the trades table that carry an order id.
RECURSIVE BagSum(_, _)
BagSum(B, S) ==
    IF S = {} THEN 0
    ELSE LET r == CHOOSE x \in S : TRUE
         IN  CopiesIn(r, B) + BagSum(B, S \ {r})

TradeCount(B, id) == BagSum(B, {r \in BagToSet(B) : r.order_id = id})

FillPcs == {"fill_update", "fill_cache", "apply_read", "apply_upsert", "apply_cache"}

\* Task t takes a step from label a to label b.
Step(t, a, b) == pc[t] = a /\ pc'[t] = b

\* The quantity of the orders of a position key that have a trade row.
RECURSIVE FilledQuantity(_, _)
FilledQuantity(key, S) ==
    IF S = {} THEN DZero
    ELSE LET i == CHOOSE x \in S : TRUE
             rest == FilledQuantity(key, S \ {i})
         IN  IF <<orders[i].account_id, orders[i].symbol>> = key
                    /\ TradeCount(trades, i) > 0
             THEN DAdd(orders[i].quantity, rest)
             ELSE rest

\* C1: when two ticks select the same pending order, at most one trade row is
\* inserted for it and the position takes at most one fill of it: no order has
\* two trade rows, and no position is larger than the orders filled on its key.
C1_AtMostOneFill ==
    /\ \A id \in DOMAIN orders : TradeCount(trades, id) <= 1
    /\ \A key \in DOMAIN positions :
        DLe(DAbs(positions[key].net_quantity), FilledQuantity(key, DOMAIN orders))

\* C2: a fill whose order was cancelled in the store after the tick cloned it
\* (its row was pending then) and before the fill's first write inserts no
\* trade row for it, does not overwrite its status with filled, and changes no
\* position.
C2_CancelledNotFilled ==
    [][\A t \in Tasks :
        /\ Step(t, "fill_trade", "fill_update") =>
              LET id == Unwrap(frame'[t].order).id
              IN  (id \in frame[t].live /\ orders[id].status = "cancelled") =>
                      TradeCount(trades', id) = TradeCount(trades, id)
        /\ (pc[t] \in FillPcs /\ pc'[t] # pc[t]
                /\ Unwrap(frame[t].order).id \in frame[t].live
                /\ orders[Unwrap(frame[t].order).id].status = "cancelled") =>
              /\ orders'[Unwrap(frame[t].order).id].status = "cancelled"
              /\ positions' = positions]_vars

\* C3: an order whose status is filled, cancelled or rejected keeps that status.
Terminal == {"filled", "cancelled", "rejected"}
C3_TerminalIsFinal ==
    [][\A id \in DOMAIN orders :
        orders[id].status \in Terminal => orders'[id].status = orders[id].status]_vars

\* The ids submit_order has returned as Accepted for a pair, in a state with
\* store rows ords and tasks at pcs with locals frames: the row is in the
\* store and the call that inserted it is past its cache insert.
AcceptedIdsIn(ords, pcs, frames, account, cid) ==
    {i \in DOMAIN ords :
        /\ ords[i].account_id = account
        /\ ords[i].client_order_id = cid
        /\ \A u \in Tasks : ~(pcs[u] = "submit_cache" /\ frames[u].order = Some(ords[i]))}

AcceptedIds(account, cid) == AcceptedIdsIn(orders, pc, frame, account, cid)

\* C4: a submit_order by a principal with orders:create returns Accepted with
\* the id of the row it inserted, and a later submit_order of the same account
\* and client_order_id returns Duplicate with that id, adds no row and leaves
\* the orders cache as it was.
C4_SequentialDuplicate ==
    [][/\ \A t \in Tasks :
            Step(t, "submit_cache", "idle") =>
                /\ result'.kind = "Accepted"
                /\ result'.order_id = Some(Unwrap(frame[t].order).id)
                /\ AcceptedIdsIn(orders', pc', frame', frame[t].auth.account_id,
                                 frame[t].req.client_order_id)
                        = {Unwrap(frame[t].order).id}
       /\ \A t \in Tasks, auth \in Submitters, req \in NewOrderRequests :
            (/\ has_permission(auth, ORDERS_CREATE)
             /\ AcceptedIds(auth.account_id, req.client_order_id) # {}
             /\ SubmitSelect(t, auth, req)) =>
                /\ result'.task = t
                /\ result'.kind = "Duplicate"
                /\ AcceptedIds(auth.account_id, req.client_order_id)
                        = {Unwrap(result'.order_id)}
                /\ orders' = orders
                /\ ordersCache' = ordersCache]_vars

\* A second submit_order of an accepted (account, client_order_id) has just
\* returned Duplicate.
C4_Witness ==
    /\ result.kind = "Duplicate"
    /\ \E i \in DOMAIN orders : result.order_id = Some(i) /\ i \in AcceptedIds(1, "abc")
    /\ Len(orders) < MaxOrders

\* C5: two submit_order calls of one (account, client_order_id) that both ran
\* the duplicate pre-check before either insert both get a successful response
\* with the same order id: a call that is past the pre-check returns success
\* with the id of the row of its pair.
C5_BothSucceed ==
    [][\A t \in Tasks :
        (pc[t] \in {"submit_insert", "submit_cache"} /\ pc'[t] = "idle") =>
            /\ SubmitResponse(result').success
            /\ \A i \in DOMAIN orders' :
                (/\ orders'[i].account_id = frame[t].auth.account_id
                 /\ orders'[i].client_order_id = frame[t].req.client_order_id) =>
                    SubmitResponse(result').order_id = Some(i)]_vars

SamePair(a, b) ==
    a.account_id = b.account_id /\ a.client_order_id = b.client_order_id

\* C6: the store holds at most one order row per (account_id, client_order_id)
\* and the orders cache holds at most one order per pair.
C6_UniquePair ==
    /\ \A i, j \in DOMAIN orders : SamePair(orders[i], orders[j]) => i = j
    /\ \A i, j \in DOMAIN ordersCache :
            SamePair(ordersCache[i], ordersCache[j]) => i = j

\* Two submits of one pair raced past the pre-check and the store refused the
\* second row; the first is in the store.
C6_Witness ==
    /\ result.kind = "Err"
    /\ result.error = "DatabaseError"
    /\ Len(orders) = 1

\* C7: when fill_order returns for an order, the orders cache does not hold
\* its id and its store row is filled with filled_quantity = quantity; an id
\* that was filled and removed from the cache does not come back into it.
C7_FilledAfterFill ==
    [][/\ \A t \in Tasks :
            (pc[t] = "apply_cache" /\ pc'[t] # "apply_cache") =>
                LET id == Unwrap(frame[t].order).id
                IN  /\ id \notin DOMAIN ordersCache'
                    /\ orders'[id].status = "filled"
                    /\ orders'[id].filled_quantity = orders'[id].quantity
       /\ \A id \in DOMAIN orders :
            (TradeCount(trades, id) > 0 /\ id \notin DOMAIN ordersCache) =>
                id \notin DOMAIN ordersCache']_vars

\* The decimal a last_price string denotes, written out.
WirePrice(s) ==
    CASE s = <<"4", "9", "9", "9", "9", ".", "9", "9">> -> [n |-> 4999999, d |-> 100]
      [] s = <<"5", "0", "0", "0", "0", ".", "0", "0">> -> [n |-> 50000, d |-> 1]
      [] s = <<"5", "0", "0", "0", "0", ".", "0", "1">> -> [n |-> 5000001, d |-> 100]

SignedQuantity(o) == IF o.side = "buy" THEN o.quantity ELSE DNeg(o.quantity)

\* C8: an order a tick selected is filled at the tick's parsed last_price: the
\* trade row carries the order's quantity and that price, the order row becomes
\* filled with avg_fill_price = that price, and the owner's position takes one
\* fill of the full quantity at that price (from flat: that quantity at that
\* price).
C8_FilledAtLastPrice ==
    [][\A t \in Tasks :
        /\ \A tick \in MarketTicks :
            (pc'[t] = "fill_trade" /\ TickSelect(t, tick)) =>
                frame'[t].price = WirePrice(tick.last_price)
        /\ Step(t, "fill_trade", "fill_update") =>
            LET o == Unwrap(frame'[t].order)
                row == [order_id |-> o.id, account_id |-> o.account_id,
                        symbol |-> o.symbol, side |-> o.side,
                        quantity |-> o.quantity, price |-> frame[t].price]
            IN  /\ o \in frame[t].matched
                /\ frame'[t].price = frame[t].price
                /\ CopiesIn(row, trades') = CopiesIn(row, trades) + 1
                /\ BagCardinality(trades') = BagCardinality(trades) + 1
        /\ Step(t, "fill_update", "fill_cache") =>
            LET id == Unwrap(frame[t].order).id
            IN  /\ orders'[id].status = "filled"
                /\ orders'[id].avg_fill_price = Some(frame[t].price)
                /\ orders'[id].filled_quantity = orders[id].quantity
        /\ Step(t, "apply_read", "apply_upsert") =>
            LET o == Unwrap(frame[t].order)
                key == <<o.account_id, o.symbol>>
                calc == Unwrap(frame'[t].calc)
            IN  IF key \in DOMAIN positionsCache
                THEN calc.new_quantity =
                        DAdd(positionsCache[key].net_quantity, SignedQuantity(o))
                ELSE /\ calc.new_quantity = SignedQuantity(o)
                     /\ calc.new_avg_price = frame[t].price
        /\ Step(t, "apply_upsert", "apply_cache") =>
            LET o == Unwrap(frame[t].order)
                key == <<o.account_id, o.symbol>>
                calc == Unwrap(frame[t].calc)
            IN  /\ positions'[key].net_quantity = calc.new_quantity
                /\ positions'[key].avg_price = calc.new_avg_price
                /\ \A k \in DOMAIN positions \ {key} : positions'[k] = positions[k]]_vars

\* Scenario G: a limit buy of 1 @ 50000 was filled by a tick at 49999.99 from
\* flat: the order is filled at 49999.99, its trade row is there, and the
\* position is 1 @ 49999.99.
C8_Witness ==
    /\ \A t \in Tasks : pc[t] = "idle"
    /\ Len(orders) = 1
    /\ orders[1].order_type = "limit" /\ orders[1].side = "buy"
    /\ orders[1].price = Some(Dec(50000))
    /\ orders[1].status = "filled"
    /\ orders[1].avg_fill_price = Some([n |-> 4999999, d |-> 100])
    /\ BagCardinality(trades) = 1
    /\ \E r \in BagToSet(trades) :
            r.order_id = 1 /\ r.price = [n |-> 4999999, d |-> 100] /\ r.quantity = Dec(1)
    /\ <<1, "BTC-USD">> \in DOMAIN positions
    /\ positions[<<1, "BTC-USD">>].net_quantity = Dec(1)
    /\ positions[<<1, "BTC-USD">>].avg_price = [n |-> 4999999, d |-> 100]

\* The tick crosses no pending order's limit on its symbol: its price parses,
\* is above the limit of every cached pending buy and below the limit of every
\* cached pending sell of that symbol.
NoCross(tick) ==
    /\ IsSome(ParseDecimal(tick.last_price))
    /\ \A id \in DOMAIN ordersCache :
        LET o == ordersCache[id]
        IN  (o.symbol = tick.symbol /\ o.status = "pending" /\ IsSome(o.price)) =>
                /\ o.side = "buy" => DGt(WirePrice(tick.last_price), Unwrap(o.price))
                /\ o.side = "sell" => DLt(WirePrice(tick.last_price), Unwrap(o.price))

\* C9: a tick that crosses no pending order's limit on its symbol returns at
\* once and leaves the orders, trades and positions tables and both caches as
\* they were.
C9_NoCrossNoChange ==
    [][\A t \in Tasks, tick \in MarketTicks :
        (/\ Free(t)
         /\ result'.kind = "Unit" \/ pc'[t] = "fill_trade"
         /\ NoCross(tick)
         /\ TickSelect(t, tick)) =>
            /\ pc'[t] = "idle"
            /\ UNCHANGED <<orders, trades, positions, ordersCache, positionsCache>>]_vars

\* A tick has just returned without a fill while a pending sell with a limit
\* rests in the cache: only a tick that does not cross it can do that.
C9_Witness ==
    /\ result.kind = "Unit" /\ result.error = ""
    /\ trades = EmptyBag
    /\ \A t \in Tasks : pc[t] = "idle"
    /\ \E id \in DOMAIN ordersCache :
            /\ ordersCache[id].side = "sell"
            /\ IsSome(ordersCache[id].price)
            /\ orders[id].status = "pending"

\* C10: an order at rest whose order_type is market is never selected by a
\* tick and never filled.
C10_MarketNeverFilled ==
    /\ \A t \in Tasks : \A o \in frame[t].matched : o.order_type # "market"
    /\ \A id \in DOMAIN orders :
        orders[id].order_type = "market" =>
            TradeCount(trades, id) = 0 /\ orders[id].status # "filled"

\* C11: cancel_order for an order id that has no row in the store returns
\* None (to a principal that passes the orders:cancel check) and changes
\* neither the store nor the orders cache.
C11_CancelUnknown ==
    [][\A t \in Tasks, auth \in Cancellers, id \in OrderIds :
        (Free(t) /\ id \notin DOMAIN orders /\ CancelSelect(t, auth, id)) =>
            /\ has_permission(auth, ORDERS_CANCEL) =>
                    result'.task = t /\ result'.kind = "None"
            /\ pc'[t] = "idle"
            /\ UNCHANGED <<orders, trades, positions, ordersCache, positionsCache>>]_vars

\* A cancel has just returned None while the store holds an order under
\* another id.
C11_Witness ==
    /\ result.kind = "None"
    /\ Len(orders) = 1
    /\ 1 \in DOMAIN ordersCache

\* C12: cancel_order applied to an order whose status is already filled,
\* cancelled or rejected returns an error, and no cancel changes the status of
\* such an order.
C12_TerminalCancelRefused ==
    [][\A t \in Tasks :
        /\ \A auth \in Cancellers, id \in DOMAIN orders :
            (Free(t) /\ orders[id].status \in Terminal /\ CancelSelect(t, auth, id)) =>
                result'.task = t /\ result'.kind = "Err"
        /\ Step(t, "cancel_update", "cancel_cache") =>
            LET id == frame[t].order_id
            IN  orders[id].status \in Terminal =>
                    orders'[id].status = orders[id].status]_vars

\* The principal lacks orders:cancel, or is not the owner of order id and has
\* neither admin:full nor accounts:read_all (a principal with admin:full lacks
\* nothing).
CancelDenied(auth, id) ==
    \/ ORDERS_CANCEL \notin auth.permissions /\ ADMIN_FULL \notin auth.permissions
    \/ /\ orders[id].account_id # auth.account_id
       /\ ADMIN_FULL \notin auth.permissions
       /\ ACCOUNTS_READ_ALL \notin auth.permissions

\* C15: cancel_order of an existing order by a principal who lacks
\* orders:cancel, or who is not the owner and has neither admin:full nor
\* accounts:read_all, returns an error and leaves the order's store row and its
\* orders-cache entry as they were.
C15_CancelDenied ==
    [][\A t \in Tasks, auth \in Cancellers, id \in DOMAIN orders :
        (Free(t) /\ CancelDenied(auth, id) /\ CancelSelect(t, auth, id)) =>
            /\ result'.task = t
            /\ result'.kind = "Err"
            /\ pc'[t] = "idle"
            /\ orders' = orders
            /\ ordersCache' = ordersCache]_vars

\* A cancel of a pending, cached order has just been refused because the
\* caller is not its owner.
C15_Witness ==
    /\ result.kind = "Err"
    /\ result.error = "InsufficientPermissions: Cannot cancel others' orders"
    /\ \E id \in DOMAIN ordersCache : orders[id].status = "pending"

\* What validate_order refuses: a quantity that is zero or negative, a limit
\* order without a price.
Invalid(req) ==
    \/ DLe(req.quantity, DZero)
    \/ req.order_type = "limit" /\ req.price = None

\* C13: submit_order with a quantity that is zero or negative, or with order
\* type limit and no price, returns a failure, and no order row and no
\* orders-cache entry is created for it.
C13_InvalidRejected ==
    [][\A t \in Tasks :
        /\ \A call \in RuntimeSubmits :
            (/\ Free(t) /\ pc'[t] = "idle" /\ Invalid(call[2])
             /\ SubmitSelect(t, call[1], call[2])) =>
                result'.task = t /\ result'.kind = "Err"
        /\ Step(t, "submit_insert", "submit_cache") => ~Invalid(frame[t].req)
        /\ (pc[t] \in {"submit_insert", "submit_cache"} /\ pc'[t] = "idle"
                /\ Invalid(frame[t].req)) =>
                /\ result'.kind = "Err"
                /\ orders' = orders
                /\ ordersCache' = ordersCache]_vars

\* C14: submit_order by a principal whose permission set contains neither
\* orders:create nor admin:full returns an insufficient-permissions error,
\* inserts no order row and leaves the orders cache unchanged; a principal
\* holding only admin:full is not refused, and its order is accepted.
C14_SubmitPermission ==
    [][\A t \in Tasks :
        /\ \A call \in RuntimeSubmits :
            (Free(t) /\ SubmitSelect(t, call[1], call[2])) =>
                LET held == call[1].permissions
                IN  /\ (ORDERS_CREATE \notin held /\ ADMIN_FULL \notin held) =>
                        /\ result'.task = t
                        /\ result'.kind = "Err"
                        /\ result'.error = "InsufficientPermissions: orders:create required"
                        /\ pc'[t] = "idle"
                        /\ orders' = orders
                        /\ ordersCache' = ordersCache
                    /\ held = {ADMIN_FULL} =>
                        pc'[t] = "submit_insert" \/ result'.kind = "Duplicate"
        /\ Step(t, "submit_insert", "submit_cache") =>
            \/ ORDERS_CREATE \in frame[t].auth.permissions
            \/ ADMIN_FULL \in frame[t].auth.permissions
        /\ (Step(t, "submit_cache", "idle") /\ frame[t].auth.permissions = {ADMIN_FULL}) =>
            /\ result'.kind = "Accepted"
            /\ Unwrap(result'.order_id) \in DOMAIN ordersCache']_vars

\* The order of the principal that holds admin:full alone is in the store and
\* in the cache, and a submit by a principal without orders:create has just
\* been refused.
C14_Witness ==
    /\ \E id \in DOMAIN ordersCache : orders[id].account_id = Bob.account_id
    /\ result.kind = "Err"
    /\ result.error = "InsufficientPermissions: orders:create required"

\* The rows of the positions table that belong to an account.
RowsOf(account) ==
    {r \in {positions[k] : k \in DOMAIN positions} : r.account_id = account}

\* C16: get_account_positions returns the rows of an account other than the
\* caller's own only when the caller has positions:read together with
\* positions:read_all, or admin:full; otherwise it returns a permission error;
\* with no target it returns the caller's own rows and nothing else (given
\* positions:read); it changes neither the store nor a cache.
C16_ReadPositions ==
    [][\A t \in Tasks, auth \in Readers, account_id \in Targets :
        (Free(t) /\ GetAccountPositions(t, auth, account_id)) =>
            LET held == auth.permissions
                asked == IF account_id = None THEN auth.account_id
                         ELSE Unwrap(account_id)
                allowed ==
                    IF asked = auth.account_id
                    THEN POSITIONS_READ \in held \/ ADMIN_FULL \in held
                    ELSE \/ POSITIONS_READ \in held /\ POSITIONS_READ_ALL \in held
                         \/ ADMIN_FULL \in held
            IN  /\ UNCHANGED <<orders, trades, positions, ordersCache, positionsCache>>
                /\ pc'[t] = "idle"
                /\ result'.task = t
                /\ IF allowed
                   THEN result'.kind = "Positions" /\ result'.rows = RowsOf(asked)
                   ELSE result'.kind = "Err"]_vars

\* A read of another account's positions has just been refused while the
\* table holds rows of two accounts.
C16_Witness ==
    /\ result.kind = "Err"
    /\ result.error = "InsufficientPermissions: Cannot view others' positions"
    /\ RowsOf(1) # {}
    /\ RowsOf(2) # {}

\* Task t's fill_order has just returned an error from the await it was at.
FillFailedAt(t, label) ==
    /\ pc[t] = label
    /\ result'.task = t
    /\ result'.kind = "Err"
    /\ result'.error = "Failed to fill order"

\* C17: if a store write of a fill fails (the trade insert, the order update
\* or the position upsert), the fill reports an error and the trades table,
\* the order row, the position row, the orders cache and the positions cache
\* are as they were before the fill started: the trade row the fill inserted
\* is gone, and an order that was pending and that no other fill has touched
\* is pending and cached again.
C17_FailedFillUndone ==
    [][\A t \in Tasks :
        /\ FillFailedAt(t, "fill_trade") =>
            UNCHANGED <<orders, trades, positions, ordersCache, positionsCache>>
        /\ (FillFailedAt(t, "fill_update") \/ FillFailedAt(t, "apply_upsert")) =>
            LET o == Unwrap(frame[t].order)
            IN  /\ TradeCount(trades', o.id) = TradeCount(trades, o.id) - 1
                /\ (o.id \in frame[t].live /\ TradeCount(trades, o.id) = 1) =>
                        /\ orders'[o.id].status = "pending"
                        /\ orders'[o.id].filled_quantity = DZero
                        /\ orders'[o.id].avg_fill_price = None
                        /\ o.id \in DOMAIN ordersCache'
                /\ positions' = positions
                /\ positionsCache' = positionsCache]_vars

\* C18: apply_fill mutates the positions cache only after the position upsert
\* has succeeded: a failed upsert returns an error with the table and the
\* cache unchanged; a successful one hands on the row the store returned, and
\* the cache then holds that row when the new quantity is non-zero and no
\* entry when it is zero; no other step changes the positions cache.
C18_CacheAfterUpsert ==
    [][/\ \A t \in Tasks :
            LET o == Unwrap(frame[t].order)
                key == <<o.account_id, o.symbol>>
            IN  /\ (pc[t] = "apply_upsert" /\ pc'[t] # "apply_upsert") =>
                    /\ positionsCache' = positionsCache
                    /\ \/ /\ pc'[t] = "apply_cache"
                          /\ key \in DOMAIN positions'
                          /\ frame'[t].pos = Some(positions'[key])
                       \/ /\ FillFailedAt(t, "apply_upsert")
                          /\ result'.order_id = Some(o.id)
                          /\ positions' = positions
                /\ (pc[t] = "apply_cache" /\ pc'[t] # "apply_cache") =>
                    IF Unwrap(frame[t].calc).new_quantity # DZero
                    THEN /\ key \in DOMAIN positionsCache'
                         /\ positionsCache'[key] = Unwrap(frame[t].pos)
                    ELSE key \notin DOMAIN positionsCache'
       /\ positionsCache' # positionsCache =>
            \E t \in Tasks : pc[t] = "apply_cache" /\ pc'[t] # "apply_cache"]_vars

\* The only fill of an order has failed at the position upsert and nothing is
\* in flight: its trade row is there, its order row is filled, and the
\* positions table and cache are as they were loaded.
C18_Witness ==
    /\ result.kind = "Err"
    /\ result.error = "Failed to fill order"
    /\ BagCardinality(trades) = 1
    /\ \E id \in DOMAIN orders :
            result.order_id = Some(id) /\ orders[id].status = "filled"
    /\ \A t \in Tasks : pc[t] = "idle"
    /\ positions = LoadedPositions
    /\ positionsCache = LoadedPositions

\* C19: whenever no apply_fill stands between its upsert and its cache update,
\* a position whose net_quantity is 0 has avg_price 0 in the store and no
\* entry in the positions cache.
C19_FlatIsZero ==
    (\A t \in Tasks : pc[t] # "apply_cache") =>
        \A key \in DOMAIN positions :
            positions[key].net_quantity = DZero =>
                /\ positions[key].avg_price = DZero
                /\ key \notin DOMAIN positionsCache

\* The realized_pnl the table holds for a key (0 when it has no row).
StoredRealized(tbl, key) ==
    IF key \in DOMAIN tbl THEN tbl[key].realized_pnl ELSE DZero

\* C20: the stored realized_pnl of a key is the sum of the realized deltas
\* computed for the fills applied to it: each upsert adds the delta of its
\* fill to the stored value, and nothing else changes it, also after the
\* position was closed to flat and reopened.
C20_RealizedAccumulates ==
    [][\A key \in DOMAIN positions' :
        LET upserting ==
                {t \in Tasks :
                    /\ Step(t, "apply_upsert", "apply_cache")
                    /\ <<Unwrap(frame[t].order).account_id,
                         Unwrap(frame[t].order).symbol>> = key}
        IN  IF upserting = {}
            THEN key \in DOMAIN positions
                    /\ positions'[key].realized_pnl = positions[key].realized_pnl
            ELSE \A t \in upserting :
                    positions'[key].realized_pnl =
                        DAdd(StoredRealized(positions, key),
                             Unwrap(frame[t].calc).realized_pnl)]_vars

\* The position loaded with realized_pnl 5 was closed by a sell at 50000.01
\* (delta 0.01) and then reopened by a buy at 49999.99 (delta 0): the row keeps
\* 5.01.
C20_Witness ==
    /\ \A t \in Tasks : pc[t] = "idle"
    /\ BagCardinality(trades) = 2
    /\ positions[<<1, "BTC-USD">>].net_quantity = Dec(1)
    /\ positions[<<1, "BTC-USD">>].avg_price = [n |-> 4999999, d |-> 100]
    /\ positions[<<1, "BTC-USD">>].realized_pnl = [n |-> 501, d |-> 100]
    /\ <<1, "BTC-USD">> \in DOMAIN positionsCache
    /\ positionsCache[<<1, "BTC-USD">>] = positions[<<1, "BTC-USD">>]

\* The fill task t's apply_fill was called with.
FillAt(t) == FillOf(Unwrap(frame[t].order), frame[t].price)

\* The position apply_fill finds for the fill's key: the cached entry, or a
\* flat position when the cache has none.
PriorQuantity(t) ==
    IF PositionKey(FillAt(t)) \in DOMAIN positionsCache
    THEN positionsCache[PositionKey(FillAt(t))].net_quantity ELSE DZero
PriorAvg(t) ==
    IF PositionKey(FillAt(t)) \in DOMAIN positionsCache
    THEN positionsCache[PositionKey(FillAt(t))].avg_price ELSE DZero

\* Task t's apply_fill computes the next position in this step.
Computes(t) == Step(t, "apply_read", "apply_upsert")

\* C21: for every prior position (flat, long or short) and every fill, the
\* new net quantity is the prior net quantity plus the fill quantity for a
\* buy and minus the fill quantity for a sell.
C21_NewQuantity ==
    [][\A t \in Tasks :
        Computes(t) =>
            Unwrap(frame'[t].calc).new_quantity =
                IF FillAt(t).side = "buy"
                THEN DAdd(PriorQuantity(t), FillAt(t).quantity)
                ELSE DSub(PriorQuantity(t), FillAt(t).quantity)]_vars

\* A sell of 10 against a flat position (a flat row in the table, no cache
\* entry) has been computed: the new quantity is -10.
C21_Witness ==
    /\ pc[1] = "apply_upsert"
    /\ <<1, "BTC-USD">> \in DOMAIN positions
    /\ positions[<<1, "BTC-USD">>].net_quantity = DZero
    /\ positionsCache = EmptyMap
    /\ FillAt(1).side = "sell"
    /\ Unwrap(frame[1].calc).new_quantity = Dec(-10)

\* sign(q): +1 for a long quantity, -1 for a short one.
Sign(q) == IF DGt(q, DZero) THEN Dec(1) ELSE IF DLt(q, DZero) THEN Dec(-1) ELSE DZero

\* The fill of task t's apply_fill adds to the position it finds (a buy on a
\* long, a sell on a short), or works against it.
SameDirection(t) ==
    \/ DGt(PriorQuantity(t), DZero) /\ FillAt(t).side = "buy"
    \/ DLt(PriorQuantity(t), DZero) /\ FillAt(t).side = "sell"
OppositeDirection(t) ==
    \/ DGt(PriorQuantity(t), DZero) /\ FillAt(t).side = "sell"
    \/ DLt(PriorQuantity(t), DZero) /\ FillAt(t).side = "buy"

DMin(a, b) == IF DLe(a, b) THEN a ELSE b
DMax(a, b) == IF DLe(a, b) THEN b ELSE a

C23_ReduceKeepsAverage ==
    [][\A t \in Tasks :
        (/\ Computes(t) /\ OppositeDirection(t)
         /\ DLt(FillAt(t).quantity, DAbs(PriorQuantity(t)))) =>
            LET calc == Unwrap(frame'[t].calc)
                q0 == PriorQuantity(t)
                p0 == PriorAvg(t)
                f == FillAt(t)
            IN  /\ Sign(calc.new_quantity) = Sign(q0)
                /\ calc.new_avg_price = p0
                /\ calc.realized_pnl =
                        DMul(DMul(f.quantity, DSub(f.price, p0)), Sign(q0))]_vars

\* Scenario C: long 10 @ 100, sell 5 @ 120 has been computed as quantity 5,
\* average 100, realized +100.
C23_Witness ==
    /\ pc[1] = "apply_upsert"
    /\ PriorQuantity(1) = Dec(10) /\ PriorAvg(1) = Dec(100)
    /\ FillAt(1).side = "sell"
    /\ FillAt(1).quantity = Dec(5) /\ FillAt(1).price = Dec(120)
    /\ Unwrap(frame[1].calc) = Calc(Dec(5), Dec(100), Dec(100))

\* C24: a fill against the position with quantity at least |q0| (an exact
\* close or a crossing) realizes |q0| * (pf - p0) * sign(q0): the closed
\* quantity, not the fill quantity.
C24_CloseRealizesClosed ==
    [][\A t \in Tasks :
        (/\ Computes(t) /\ OppositeDirection(t)
         /\ DGe(FillAt(t).quantity, DAbs(PriorQuantity(t)))) =>
            LET calc == Unwrap(frame'[t].calc)
                q0 == PriorQuantity(t)
                p0 == PriorAvg(t)
                f == FillAt(t)
            IN  calc.realized_pnl =
                    DMul(DMul(DAbs(q0), DSub(f.price, p0)), Sign(q0))]_vars

\* Scenario F: short 10 @ 100 bought back 10 @ 80 has been computed as flat
\* with realized +200.
C24_Witness ==
    /\ pc[1] = "apply_upsert"
    /\ PriorQuantity(1) = Dec(-10) /\ PriorAvg(1) = Dec(100)
    /\ FillAt(1).side = "buy"
    /\ FillAt(1).quantity = Dec(10) /\ FillAt(1).price = Dec(80)
    /\ Unwrap(frame[1].calc) = Calc(DZero, DZero, Dec(200))

\* C25: a fill that crosses zero (against the position and larger than it)
\* gives net quantity q0 plus the signed fill quantity, non-zero and of the
\* sign opposite to q0, at an average price equal to the fill price whatever
\* the prior average was.
C25_CrossAtFillPrice ==
    [][\A t \in Tasks :
        (/\ Computes(t) /\ OppositeDirection(t)
         /\ DGt(FillAt(t).quantity, DAbs(PriorQuantity(t)))) =>
            LET calc == Unwrap(frame'[t].calc)
                q0 == PriorQuantity(t)
                f == FillAt(t)
            IN  /\ calc.new_quantity =
                        DAdd(q0, DMul(f.quantity,
                                      IF f.side = "buy" THEN Dec(1) ELSE Dec(-1)))
                /\ Sign(calc.new_quantity) = DNeg(Sign(q0))
                /\ calc.new_avg_price = f.price]_vars

\* Scenario E: long 10 @ 100, sell 15 @ 120 has been computed as quantity -5
\* at average 120.
C25_Witness ==
    /\ pc[1] = "apply_upsert"
    /\ PriorQuantity(1) = Dec(10) /\ PriorAvg(1) = Dec(100)
    /\ FillAt(1).side = "sell"
    /\ FillAt(1).quantity = Dec(15) /\ FillAt(1).price = Dec(120)
    /\ Unwrap(frame[1].calc).new_quantity = Dec(-5)
    /\ Unwrap(frame[1].calc).new_avg_price = Dec(120)

\* C26: once the breaker is Open and the configured timeout has elapsed since
\* it became Open, an allow_call goes on to the transition: it sets the state
\* to HalfOpen and returns true.
C26_OpenTimesOut ==
    [][\A t \in Tasks :
        /\ (/\ Free(t)
            /\ breaker.state = "Open"
            /\ clock - history.opened_at >= breaker.config.timeout_secs
            /\ AllowCall(t)) =>
                pc'[t] = "allow_write"
        /\ Step(t, "allow_write", "idle") =>
            /\ breaker'.state = "HalfOpen"
            /\ result'.task = t
            /\ result'.kind = "true"]_vars

\* C27: between the state becoming HalfOpen and its next change, the calls
\* allow_call admits (results of true, the call that left Open included) are
\* at most half_open_max_calls.
C27_HalfOpenProbes ==
    history.admitted <= breaker.config.half_open_max_calls

\* C28: a success recorded while Closed sets the failure count to zero; a
\* failure recorded while Closed goes on to open the breaker exactly when it
\* is the failure_threshold-th failure with no success recorded in between,
\* and then the state becomes Open; the state never goes from Closed to Open
\* without failure_threshold such failures.
C28_OpensAtThreshold ==
    [][/\ \A t \in Tasks :
            /\ (Free(t) /\ breaker.state = "Closed" /\ RecordSuccess(t)) =>
                    breaker'.failure_count = 0
            /\ (Free(t) /\ breaker.state = "Closed" /\ RecordFailure(t)) =>
                    (pc'[t] = "failure_open" <=>
                        history.streak + 1 >= breaker.config.failure_threshold)
            /\ Step(t, "failure_open", "idle") => breaker'.state = "Open"
       /\ (breaker.state = "Closed" /\ breaker'.state = "Open") =>
            history.tripped]_vars

\* C29: a success recorded in HalfOpen adds one to the success counter; if
\* the counter has then reached success_threshold the call goes on to set the
\* state to Closed with the failure counter and the success counter zero; with
\* fewer successes the call returns and the state stays HalfOpen.
C29_HalfOpenSuccess ==
    [][\A t \in Tasks :
        /\ (Free(t) /\ breaker.state = "HalfOpen" /\ RecordSuccess(t)) =>
                /\ breaker'.success_count = breaker.success_count + 1
                /\ breaker'.state = "HalfOpen"
                /\ pc'[t] = IF breaker'.success_count >=
                                    breaker.config.success_threshold
                            THEN "success_write" ELSE "idle"
        /\ Step(t, "success_write", "idle") =>
                /\ breaker'.state = "Closed"
                /\ breaker'.failure_count = 0
                /\ breaker'.success_count = 0]_vars

\* With success_threshold 2, the second success of a HalfOpen period has been
\* counted and its call is about to close the breaker.
C29_Witness ==
    /\ pc[1] = "success_write"
    /\ \A t \in Tasks \ {1} : pc[t] = "idle"
    /\ breaker.state = "HalfOpen"
    /\ breaker.config.success_threshold = 2
    /\ breaker.success_count = 2

\* C30: a failure recorded in HalfOpen goes on to set the state to Open and
\* the success counter to zero; whenever the state becomes HalfOpen the
\* success counter is zero, so that a HalfOpen period counts its own
\* successes only.
C30_HalfOpenFailure ==
    [][/\ \A t \in Tasks :
            /\ (Free(t) /\ breaker.state = "HalfOpen" /\ RecordFailure(t)) =>
                    pc'[t] = "failure_reopen"
            /\ Step(t, "failure_reopen", "idle") =>
                    /\ breaker'.state = "Open"
                    /\ breaker'.success_count = 0
       /\ (breaker.state # "HalfOpen" /\ breaker'.state = "HalfOpen") =>
            breaker'.success_count = 0]_vars

\* C40: under any interleaving of allow_call, record_success and
\* record_failure the state never goes from Open to Closed in one write: a
\* record_success that read HalfOpen before a failure re-opened the breaker
\* does not close it.
C40_OpenNeverCloses ==
    [][breaker.state = "Open" => breaker'.state # "Closed"]_vars

\* C34: within one fill the steps come in this order, each done before the
\* next starts: the trade insert (which touches the trades table only), the
\* order update to filled (the orders table only), the removal of the order
\* from the orders cache (that cache only), the position upsert (the positions
\* table only), the positions cache mutation (that cache only).
C34_FillStepOrder ==
    [][\A t \in Tasks :
        /\ pc[t] = "fill_trade" => pc'[t] \in {"fill_trade", "fill_update"}
        /\ pc[t] = "fill_update" => pc'[t] \in {"fill_update", "fill_cache"}
        /\ pc[t] = "fill_cache" => pc'[t] \in {"fill_cache", "apply_read"}
        /\ pc[t] = "apply_read" => pc'[t] \in {"apply_read", "apply_upsert"}
        /\ pc[t] = "apply_upsert" => pc'[t] \in {"apply_upsert", "apply_cache"}
        /\ pc[t] = "apply_cache" => pc'[t] \in {"apply_cache", "fill_trade", "idle"}
        /\ Step(t, "fill_trade", "fill_update") =>
            /\ TradeCount(trades', Unwrap(frame'[t].order).id) =
                    TradeCount(trades, Unwrap(frame'[t].order).id) + 1
            /\ UNCHANGED <<orders, ordersCache, positions, positionsCache>>
        /\ Step(t, "fill_update", "fill_cache") =>
            /\ orders'[Unwrap(frame[t].order).id].status = "filled"
            /\ UNCHANGED <<trades, ordersCache, positions, positionsCache>>
        /\ Step(t, "fill_cache", "apply_read") =>
            /\ Unwrap(frame[t].order).id \notin DOMAIN ordersCache'
            /\ UNCHANGED <<orders, trades, positions, positionsCache>>
        /\ Step(t, "apply_read", "apply_upsert") =>
            UNCHANGED <<orders, trades, ordersCache, positions, positionsCache>>
        /\ Step(t, "apply_upsert", "apply_cache") =>
            /\ PositionKey(FillAt(t)) \in DOMAIN positions'
            /\ positions'[PositionKey(FillAt(t))].net_quantity =
                    Unwrap(frame[t].calc).new_quantity
            /\ UNCHANGED <<orders, trades, ordersCache, positionsCache>>
        /\ (pc[t] = "apply_cache" /\ pc'[t] # "apply_cache") =>
            UNCHANGED <<orders, trades, ordersCache, positions>>]_vars

\* A fill has just run through all its steps: the tick has returned, the
\* order's trade row is there, its row is filled, it is out of the orders
\* cache, and its position is in the table and in the positions cache.
C34_Witness ==
    /\ result.kind = "Unit" /\ result.error = "" /\ result.task # 0
    /\ \A t \in Tasks : pc[t] = "idle"
    /\ \E id \in DOMAIN orders :
        /\ orders[id].status = "filled"
        /\ TradeCount(trades, id) = 1
        /\ id \notin DOMAIN ordersCache
        /\ <<orders[id].account_id, orders[id].symbol>> \in DOMAIN positions
        /\ <<orders[id].account_id, orders[id].symbol>> \in DOMAIN positionsCache


\* The signed quantities of the fills applied to a position key: one fill per
\* trade row, counted as often as the row was inserted.
RECURSIVE AppliedQuantity(_, _)
AppliedQuantity(key, S) ==
    IF S = {} THEN DZero
    ELSE LET r == CHOOSE x \in S : TRUE
             rest == AppliedQuantity(key, S \ {r})
         IN  IF <<r.account_id, r.symbol>> = key
             THEN DAdd(DMul(Dec(CopiesIn(r, trades)), Signed(r)), rest)
             ELSE rest

\* The net_quantity the positions table holds for a key (0 without a row).
StoredQuantity(key) ==
    IF key \in DOMAIN positions THEN positions[key].net_quantity ELSE DZero

\* C36: once every fill in flight has completed, the stored net_quantity of
\* every (account, symbol) is the sum of the signed quantities of the fills
\* applied to it, also when two apply_fill calls for one key overlapped.
C36_NoFillLost ==
    (\A t \in Tasks : pc[t] = "idle") =>
        \A r \in BagToSet(trades) :
            LET key == <<r.account_id, r.symbol>>
            IN  StoredQuantity(key) = AppliedQuantity(key, BagToSet(trades))


\* The ids of the orders rows load_open_orders would select.
OpenOrderIds ==
    {id \in DOMAIN orders : orders[id].status \in {"pending", "partially_filled"}}

\* C37: whenever no operation is in flight, the orders cache holds exactly the
\* orders whose stored status is pending or partially_filled, and every cached
\* copy has the status of its row.
C37_CacheIsOpenOrders ==
    (\A t \in Tasks : pc[t] = "idle") =>
        /\ DOMAIN ordersCache = OpenOrderIds
        /\ \A id \in DOMAIN ordersCache : ordersCache[id].status = orders[id].status


\* C38: in every state, the states a fill stopped in at any point included,
\* every order whose stored status is filled has a trade row with its order
\* id, its quantity and the fill price its row carries.
C38_FilledHasTrade ==
    \A id \in DOMAIN orders :
        orders[id].status = "filled" =>
            \E r \in BagToSet(trades) :
                /\ r.order_id = id
                /\ r.quantity = orders[id].quantity
                /\ Some(r.price) = orders[id].avg_fill_price

\* A fill that got no further than its order update (the position upsert
\* failed, or the task stopped there): the order is filled, its trade row is
\* in the table, and no position was written for it.
C38_Witness ==
    /\ \E id \in DOMAIN orders :
        /\ orders[id].status = "filled"
        /\ TradeCount(trades, id) = 1
        /\ result.kind = "Err"
        /\ result.order_id = Some(id)
    /\ positions = LoadedPositions
    /\ \A t \in Tasks : pc[t] = "idle"


\* The responses published so far, and the one published last.
Published == dispatcher.published
LastPublished == dispatcher.published[Len(dispatcher.published)]

\* The step in which the handler of the message in hand returns.
HandlerReturns ==
    /\ IsSome(dispatcher.current)
    /\ ~IsSome(dispatcher'.current)
    /\ ~dispatcher'.exited

\* C32: the handler of a message on orders.submit, orders.cancel or
\* positions.query that carries a reply subject publishes one response, on
\* that subject, with success = false when the payload cannot be deserialized;
\* the handler of a message without a reply subject and the handler of a
\* market tick publish nothing; and nothing is published in any other step.
C32_OneResponsePerRequest ==
    [][/\ HandlerReturns =>
            IF Current.subject # MARKET_TICK /\ IsSome(Current.reply)
            THEN /\ Len(Published') = Len(Published) + 1
                 /\ SubSeq(Published', 1, Len(Published)) = Published
                 /\ LastPublished'.subject = Unwrap(Current.reply)
                 /\ ~Current.ok => ~LastPublished'.success
            ELSE Published' = Published
       /\ ~HandlerReturns => Published' = Published]_vars

\* Three messages were handled, a refused payload with a reply subject among
\* them and a market tick last: two responses, the refusal with success =
\* false.
C32_Witness ==
    /\ dispatcher.received = MaxMessages
    /\ ~IsSome(dispatcher.current)
    /\ ~dispatcher.exited
    /\ BagCardinality(trades) = 1
    /\ Len(Published) = 2
    /\ Published[1] = [subject |-> Inbox, success |-> TRUE]
    /\ Published[2] = [subject |-> Inbox, success |-> FALSE]

\* C33 as stated: once the shutdown signal is sent the loop takes no further
\* message (and the process reaches its exit path).
C33_NoMessageAfterSignal ==
    [][dispatcher.signal => dispatcher'.received = dispatcher.received]_vars

\* C33, amended: once the shutdown signal is sent the process reaches its exit
\* path, and from then on no message is taken, no handler takes a step and
\* nothing is published; between the signal and the exit the loop may still
\* take messages.
C33_ShutdownStops ==
    /\ dispatcher.signal ~> dispatcher.exited
    /\ [][dispatcher.exited => vars' = vars]_vars

\* The process has left while a submit was between its INSERT and its cache
\* insert: the row is in the store, the handler is gone, nothing was
\* published for the message.
C33_Witness ==
    /\ dispatcher.exited
    /\ dispatcher.signal
    /\ Len(orders) = 1
    /\ ordersCache = EmptyMap
    /\ Published = <<>>
    /\ AllIdle

\* C39: the row submit_order inserts is owned by the account of the
\* submitting principal, as the AuthContext made from the message's auth
\* payload carries it, whatever account the body names and whatever the
\* principal's permissions.
C39_OwnerIsPrincipal ==
    [][Len(orders') > Len(orders) =>
        /\ InHand(ORDERS_SUBMIT)
        /\ orders'[Len(orders')].account_id =
                AuthContext_from(Current.auth).account_id]_vars

\* Bob, who holds admin:full, has submitted an order whose body names Alice's
\* account: the row is Bob's.
C39_Witness ==
    /\ InHand(ORDERS_SUBMIT)
    /\ Current.auth = BobPayload
    /\ Current.req.account_id = Some(<<"0", "1">>)
    /\ result.kind = "Accepted"
    /\ \E id \in DOMAIN orders :
        /\ result.order_id = Some(id)
        /\ orders[id].account_id = Bob.account_id
        /\ orders[id].account_id # Alice.account_id


\* The await points of a tick after its select, and the await points at which
\* a call asks for the write lock of the orders cache.
AfterSelect == {"fill_trade", "fill_update", "fill_cache", "apply_read", "apply_upsert",
                "apply_cache"}
WriteLockPcs == {"submit_cache", "cancel_cache", "fill_cache"}

\* C35: a tick has dropped the read guard of the orders cache when its select
\* is done, before its first store write and before it asks for the write
\* lock; no call holds a guard of the cache while it is suspended, so a call
\* that asks for the write lock is never kept waiting by a suspended call,
\* itself included.
C35_NoGuardAcrossAwait ==
    /\ \A t \in Tasks : pc[t] \in AfterSelect => frame[t].guard = "none"
    /\ \A t \in Tasks : pc[t] \in WriteLockPcs => CanWrite

\* A tick stands before the first store write of a fill while a submit asks
\* for the write lock.
C35_Witness ==
    /\ \E t \in Tasks : pc[t] = "fill_trade" /\ frame[t].matched # {}
    /\ \E t \in Tasks : pc[t] = "submit_cache"
    /\ CanWrite


\* The call of with_retry_async task t is in, the number of the invocation it
\* makes next, and the larger of two durations.
Retrying(t) == frame[t].retry
Invocation(t) == frame[t].retry.attempt + 1
Longer(a, b) == IF a > b THEN a ELSE b

====
